---- MODULE Spec2Model ----
(***************************************************************************)
(* Wireless M-Bus (EN 13757-4): the physical layer's frame-length and mode *)
(* derivation (stack/phl) and the receive controller (ctrl/controller.rs). *)
(* Bytes are naturals 0..255; a buffer is a sequence of bytes.             *)
(***************************************************************************)
EXTENDS Integers, Sequences, FiniteSets, TLC

VARIABLES
    listening,   \* Controller.listening
    pc,          \* "api": no stream alive; the await the stream is suspended in; "panicked"
    frame,       \* the Frame being assembled by receive_stream
    token,       \* the RxToken of the frame in progress: [id, timestamp]
    air,         \* the bytes the radio delivers for the frame in progress
    op,          \* history: the operation the last step executed
    calls,       \* history: the transceiver calls the last step completed, in order
    rx,          \* history: a receive() succeeded and no idle() succeeded / init() ran since
    started,     \* history: number of frame starts transceiver.receive reported
    status,      \* history: per frame id, "reading", "yielded" or why it was abandoned
    held,        \* the (channel, length) the stream holds across the await of accept
    pass,        \* history: the transceiver calls completed in the pass of the inner loop in progress
    accepts,     \* history: transceiver.accept calls completed for the frame in progress
    yielded,     \* history: the ids of the frames the stream yielded, in order
    item,        \* history: the Frame the last step yielded, if it yielded one
    phlBuf,      \* input buffer of FrameMetadata::read
    phlRes,      \* its result, or NoResult before it is applied
    phlPrev,     \* its first result other than Incomplete on a shorter buffer
    stack,       \* the Stack that writes and reads: Stack::new() or Stack::without_ell()
    pkt,         \* the Packet handed to Stack::write
    wire,        \* the BytesMut it wrote, then the bytes handed to Stack::read
    stackPc,     \* "new", "written" (wire holds a frame), "read", or "panicked" in write
    intact,      \* wire is what Stack::write produced from pkt
    trimmed,     \* Phl::read's `payload`: the result of FFB::trim_crc
    readRes,     \* the result of Stack::read
    tosSrc,      \* the bytes handed to ThreeOutOfSix::encode
    tosBuf,      \* the bytes behind the bit slice encode writes and decode reads
    tosBits,     \* the length in bits of the slice handed to decode
    tosEnc,      \* the result of encode
    tosDec,      \* the result of decode
    ffaLen,      \* data_length handed to get_frame_length_from_data_length
    ffaRes,      \* its result
    ffaPrev,     \* its result for ffaLen - 1, once that was computed
    addrIn,      \* the 8 bytes handed to WMBusAddress::from_bytes
    addrLayout,  \* the FieldLayout get_layout chose for them
    addrRes,     \* the result of from_bytes
    addrOut,     \* get_bytes of the parsed address, once called
    ellIn,       \* the bytes after the DLL header, handed to Ell::read
    ellRes,      \* the result of Ell::read on an empty packet
    rdStack,     \* the Stack that reads: Stack::new() or Stack::without_ell()
    rdFrame,     \* a received frame, without syncword and not 3oo6 encoded
    rdMode,      \* the mode it is read with: ModeCFFA or ModeCFFB
    rdTrim,      \* Phl::read's `payload` for it: the result of the CRC stripping
    rdRes,       \* the result of Stack::read(rdFrame, rdMode)
    rdSync,      \* the result of Stack::read(syncword ++ rdFrame, rdMode)
    rdModeT      \* the result of Stack::read(3oo6 of rdFrame, ModeTMTO)

ctrlVars == <<listening, pc, frame, token, air, held, op, calls, pass, rx,
              started, status, accepts, yielded, item>>
phlVars == <<phlBuf, phlRes, phlPrev>>
stackVars == <<stack, pkt, wire, stackPc, intact, trimmed, readRes>>
vars == <<listening, pc, frame, token, air, held, op, calls, pass, rx, started,
          status, accepts, yielded, item, phlBuf, phlRes, phlPrev,
          stack, pkt, wire, stackPc, intact, trimmed, readRes,
          tosSrc, tosBuf, tosBits, tosEnc, tosDec,
          ffaLen, ffaRes, ffaPrev,
          addrIn, addrLayout, addrRes, addrOut,
          ellIn, ellRes,
          rdStack, rdFrame, rdMode, rdTrim, rdRes, rdSync, rdModeT>>
tosVars == <<tosSrc, tosBuf, tosBits, tosEnc, tosDec>>
ffaVars == <<ffaLen, ffaRes, ffaPrev>>
addrVars == <<addrIn, addrLayout, addrRes, addrOut>>
ellVars == <<ellIn, ellRes>>
rdVars == <<rdStack, rdFrame, rdMode, rdTrim, rdRes, rdSync, rdModeT>>

\* what the steps of one part of the program leave alone
NotCtrl == <<phlVars, stackVars, tosVars, ffaVars, addrVars,
             ellVars, rdVars>>
NotPhl == <<ctrlVars, stackVars, tosVars, ffaVars, addrVars,
            ellVars, rdVars>>
NotStack == <<ctrlVars, phlVars, tosVars, ffaVars, addrVars,
              ellVars, rdVars>>
NotTos == <<ctrlVars, phlVars, stackVars, ffaVars, addrVars,
            ellVars, rdVars>>
NotFfa == <<ctrlVars, phlVars, stackVars, tosVars, addrVars,
            ellVars, rdVars>>
NotAddr == <<ctrlVars, phlVars, stackVars, tosVars, ffaVars,
             ellVars, rdVars>>
NotEll == <<ctrlVars, phlVars, stackVars, tosVars, ffaVars, addrVars, rdVars>>
NotRd == <<ctrlVars, phlVars, stackVars, tosVars, ffaVars, addrVars, ellVars>>

(***************************************************************************)
(* Bounds of the model.                                                    *)
(***************************************************************************)
MaxFrames == 2
MaxChunk == 3
MaxPhlLen == 19

(***************************************************************************)
(* Program constants.                                                      *)
(***************************************************************************)
DERIVE_FRAME_LENGTH_MIN == 3
FFA_FIRST_BLOCK_DATA_LENGTH == 10
FFA_OTHER_BLOCK_MAX_DATA_LENGTH == 16
FFA_MIN_DATA_LENGTH == FFA_FIRST_BLOCK_DATA_LENGTH + 1
FFA_MAX_DATA_LENGTH == 256
FFA_MAX_BLOCK_COUNT == 17
FFA_APL_MAX == FFA_MAX_DATA_LENGTH - FFA_FIRST_BLOCK_DATA_LENGTH
FFA_FRAME_MAX == FFA_MAX_DATA_LENGTH + 2 * FFA_MAX_BLOCK_COUNT
FFB_FIRST_BLOCK_DATA_LENGTH == 10
FFB_SECOND_BLOCK_MAX_DATA_LENGTH == 1 + 115
FFB_MIN_DATA_LENGTH == FFB_FIRST_BLOCK_DATA_LENGTH + 1
FFB_MIN_FRAME_LENGTH == FFB_MIN_DATA_LENGTH + 2
FFB_FRAME_MAX == 256
FFB_DATA_MAX == FFB_FRAME_MAX - 2 - 2
FRAME_MAX == FFA_FRAME_MAX
DEFAULT_APL_MAX == FFA_APL_MAX
HEADER_LENGTH == 10
CRC_POLY == 15717
CRC_XOROUT == 65535

(***************************************************************************)
(* Bit helpers.                                                            *)
(***************************************************************************)
Min(a, b) == IF a < b THEN a ELSE b

RECURSIVE Pow2(_)
Pow2(n) == IF n = 0 THEN 1 ELSE 2 * Pow2(n - 1)

RECURSIVE count_ones(_)
count_ones(x) == IF x = 0 THEN 0 ELSE (x % 2) + count_ones(x \div 2)

RECURSIVE Xor(_, _)
Xor(a, b) ==
    IF a = 0 THEN b
    ELSE IF b = 0 THEN a
    ELSE ((a + b) % 2) + 2 * Xor(a \div 2, b \div 2)

\* bit i of the buffer viewed as an Msb0 bit slice (view_bits::<Msb0>)
BitAt(buffer, i) == (buffer[(i \div 8) + 1] \div Pow2(7 - (i % 8))) % 2

\* chunk k of chunks_exact(6), loaded big-endian (load_be)
Symbol(buffer, k) ==
    32 * BitAt(buffer, 6 * k) + 16 * BitAt(buffer, 6 * k + 1)
    + 8 * BitAt(buffer, 6 * k + 2) + 4 * BitAt(buffer, 6 * k + 3)
    + 2 * BitAt(buffer, 6 * k + 4) + BitAt(buffer, 6 * k + 5)

(***************************************************************************)
(* modet/threeoutofsix.rs                                                  *)
(***************************************************************************)
\* Table 10 of EN 13757-4: the 6-bit codeword of each nibble
ENCODE_TABLE ==
    <<22, 13, 14, 11, 28, 25, 26, 19, 44, 37, 38, 35, 52, 49, 50, 41>>

DECODE_TABLE ==
    << -1, -1, -1, -1, -1, -1, -1, -1, -1, -1, -1,  3, -1,  1,  2, -1,
       -1, -1, -1,  7, -1, -1,  0, -1, -1,  5,  6, -1,  4, -1, -1, -1,
       -1, -1, -1, 11, -1,  9, 10, -1, -1, 15, -1, -1,  8, -1, -1, -1,
       -1, 13, 14, -1, 12, -1, -1, -1, -1, -1, -1, -1, -1, -1, -1, -1 >>

DecodeValue(sym) == DECODE_TABLE[sym + 1]

\* the symbols among k..n-1 that the table rejects
BadSymbols(buffer, k, n) ==
    { i \in k..(n - 1) : DecodeValue(Symbol(buffer, i)) = -1 }

\* index of the last symbol among k..n-1 that the table rejects, or -1
LastBadSymbol(buffer, k, n) ==
    LET bad == BadSymbols(buffer, k, n)
    IN  IF bad = {} THEN -1 ELSE CHOOSE i \in bad : \A j \in bad : j <= i

\* index of the first symbol among k..n-1 that the table rejects, or -1
FirstBadSymbol(buffer, k, n) ==
    LET bad == BadSymbols(buffer, k, n)
    IN  IF bad = {} THEN -1 ELSE CHOOSE i \in bad : \A j \in bad : i <= j

\* ThreeOutOfSix::decode on the first nbits bits of buffer
ThreeOutOfSixDecode(buffer, nbits) ==
    LET n == nbits \div 6
        bad == FirstBadSymbol(buffer, 0, n)
    IN  IF nbits % 6 # 0 \/ n % 2 # 0
        THEN [tag |-> "InputLength", sym |-> 0, bytes |-> <<>>]
        ELSE IF bad # -1
        THEN [tag |-> "Symbol", sym |-> bad, bytes |-> <<>>]
        ELSE [tag |-> "Ok", sym |-> 0,
              bytes |-> [j \in 1..(n \div 2) |->
                           16 * DecodeValue(Symbol(buffer, 2 * (j - 1)))
                           + DecodeValue(Symbol(buffer, 2 * (j - 1) + 1))]]

\* the low nibble's symbol first
EncodedBit_low_first(source, p) ==
    LET byte == source[(p \div 12) + 1]
        nibble == IF (p \div 6) % 2 = 0 THEN byte % 16 ELSE byte \div 16
    IN  (ENCODE_TABLE[nibble + 1] \div Pow2(5 - (p % 6))) % 2

\* bit p of the encoding: symbol p / 6 is the codeword of the high
\* (even symbols) or low nibble of byte p / 12, written from 0x20 down to 0x01
EncodedBit(source, p) ==
    LET byte == source[(p \div 12) + 1]
        nibble == IF (p \div 6) % 2 = 0 THEN byte \div 16 ELSE byte % 16
    IN  (ENCODE_TABLE[nibble + 1] \div Pow2(5 - (p % 6))) % 2

EncOk(written, buffer) == [tag |-> "Ok", written |-> written, buffer |-> buffer]
EncErr(e, buffer) == [tag |-> e, written |-> 0, buffer |-> buffer]

\* ThreeOutOfSix::encode into the bit slice over all of buffer
ThreeOutOfSixEncode(buffer, source) ==
    LET written == Len(source) * 2 * 6
        bit(p) == IF p < written THEN EncodedBit(source, p) ELSE BitAt(buffer, p)
    IN  IF 8 * Len(buffer) < written THEN EncErr("Capacity", buffer)
        ELSE EncOk(written,
                   [j \in 1..Len(buffer) |->
                      128 * bit(8 * j - 8) + 64 * bit(8 * j - 7)
                      + 32 * bit(8 * j - 6) + 16 * bit(8 * j - 5)
                      + 8 * bit(8 * j - 4) + 4 * bit(8 * j - 3)
                      + 2 * bit(8 * j - 2) + bit(8 * j - 1)])

(***************************************************************************)
(* CRC-16/EN-13757 and is_valid_crc (stack/phl/mod.rs)                     *)
(***************************************************************************)
\* one shift of the 16-bit register, MSB first, no reflection
CrcStep(crc) ==
    IF crc >= 32768 THEN Xor((2 * crc) % 65536, CRC_POLY) ELSE (2 * crc) % 65536

RECURSIVE CrcShift(_, _)
CrcShift(crc, n) ==
    IF n = 0 THEN crc
    ELSE LET c == CrcStep(crc) IN IF c >= 0 THEN CrcShift(c, n - 1) ELSE c

\* digest.update over data[lo..hi], the range halved so that long frames do
\* not nest one evaluation per byte
RECURSIVE CrcRange(_, _, _, _)
CrcRange(crc, data, lo, hi) ==
    IF lo > hi THEN crc
    ELSE IF lo = hi THEN CrcShift(Xor(crc, 256 * data[lo]), 8)
    ELSE LET mid == (lo + hi) \div 2
             c == CrcRange(crc, data, lo, mid)
         IN  IF c >= 0 THEN CrcRange(c, data, mid + 1, hi) ELSE c

CrcUpdate(crc, data, i) == CrcRange(crc, data, i, Len(data))

Crc16(data) == Xor(CrcUpdate(0, data, 1), CRC_XOROUT)

is_valid_crc(block) ==
    LET index == Len(block) - 2
        actual == Crc16(SubSeq(block, 1, index))
        expected == 256 * block[index + 1] + block[index + 2]
    IN  actual = expected

(***************************************************************************)
(* Results of the length derivation.                                       *)
(***************************************************************************)
LenOk(n) == [tag |-> "Ok", len |-> n]
LenErr(e) == [tag |-> e, len |-> 0]

MetaOk(m, o, l) ==
    [tag |-> "Ok", mode |-> m, frame_offset |-> o, frame_length |-> l, sym |-> 0]
MetaErr(e) ==
    [tag |-> e, mode |-> "None", frame_offset |-> 0, frame_length |-> 0, sym |-> 0]
MetaErr3oo6(r) ==
    [tag |-> "ThreeOutOfSix." \o r.tag, mode |-> "None", frame_offset |-> 0,
     frame_length |-> 0, sym |-> r.sym]
NoResult == MetaErr("NoResult")

(***************************************************************************)
(* stack/phl/ffa.rs and stack/phl/ffb.rs                                   *)
(***************************************************************************)
\* a last block is counted even when it is empty
get_frame_length_counting_empty_block(data_length) ==
    IF data_length < FFA_MIN_DATA_LENGTH THEN LenErr("InvalidLength")
    ELSE
        LET other_data_length == data_length - FFA_FIRST_BLOCK_DATA_LENGTH
            full_block_count == other_data_length \div FFA_OTHER_BLOCK_MAX_DATA_LENGTH
            last_block_data_length ==
                other_data_length - full_block_count * FFA_OTHER_BLOCK_MAX_DATA_LENGTH
        IN  LenOk(FFA_FIRST_BLOCK_DATA_LENGTH + 2
                  + full_block_count * (FFA_OTHER_BLOCK_MAX_DATA_LENGTH + 2)
                  + last_block_data_length + 2)

get_frame_length_from_data_length(data_length) ==
    IF data_length < FFA_MIN_DATA_LENGTH THEN LenErr("InvalidLength")
    ELSE
        LET other_data_length == data_length - FFA_FIRST_BLOCK_DATA_LENGTH
            full_block_count == other_data_length \div FFA_OTHER_BLOCK_MAX_DATA_LENGTH
            last_block_data_length ==
                other_data_length - full_block_count * FFA_OTHER_BLOCK_MAX_DATA_LENGTH
            last_block_frame_length ==
                IF last_block_data_length > 0 THEN last_block_data_length + 2 ELSE 0
        IN  LenOk(FFA_FIRST_BLOCK_DATA_LENGTH + 2
                  + full_block_count * (FFA_OTHER_BLOCK_MAX_DATA_LENGTH + 2)
                  + last_block_frame_length)

FFA_get_frame_length(buffer) ==
    IF Len(buffer) = 0 THEN LenErr("Incomplete")
    ELSE get_frame_length_from_data_length(1 + buffer[1])

FFB_get_frame_length(buffer) ==
    IF Len(buffer) = 0 THEN LenErr("Incomplete")
    ELSE IF 1 + buffer[1] < FFB_MIN_FRAME_LENGTH THEN LenErr("InvalidLength")
    ELSE LenOk(1 + buffer[1])

\* `let frame_length = X::get_frame_length(..)?; Ok(FrameMetadata {..})`
MetaFrom(mode, offset, r) ==
    IF r.tag = "Ok" THEN MetaOk(mode, offset, r.len) ELSE MetaErr(r.tag)

SliceFrom(buffer, from) == SubSeq(buffer, from + 1, Len(buffer))

(***************************************************************************)
(* FrameMetadata (stack/phl/mod.rs)                                        *)
(***************************************************************************)
\* the two syncword bytes exchanged
decode_modec_swapped(buffer) ==
    IF Len(buffer) < 2 THEN MetaErr("Incomplete")
    ELSE IF buffer[2] = 61
    THEN MetaFrom("ModeCFFA", 2, FFA_get_frame_length(SliceFrom(buffer, 2)))
    ELSE IF buffer[2] = 205
    THEN MetaFrom("ModeCFFB", 2, FFB_get_frame_length(SliceFrom(buffer, 2)))
    ELSE MetaErr("Syncword")

decode_modec(buffer) ==
    IF Len(buffer) < 2 THEN MetaErr("Incomplete")
    ELSE IF buffer[2] = 205
    THEN MetaFrom("ModeCFFA", 2, FFA_get_frame_length(SliceFrom(buffer, 2)))
    ELSE IF buffer[2] = 61
    THEN MetaFrom("ModeCFFB", 2, FFB_get_frame_length(SliceFrom(buffer, 2)))
    ELSE MetaErr("Syncword")

\* fewer than 18 bytes count as a first block that is not Mode T
try_decode_first_modet_block_early(buffer) ==
    IF Len(buffer) < (12 * 6) \div 4 THEN MetaErr("NoneOk")
    ELSE
        LET d == ThreeOutOfSixDecode(buffer, 12 * 6)
        IN  IF d.tag = "Ok" THEN MetaErr("Panic") ELSE MetaErr("NoneOk")

\* Result<Option<FrameMetadata>, Error>: tag "NoneOk" stands for Ok(None)
try_decode_first_modet_block(buffer) ==
    IF Len(buffer) < (12 * 6) \div 4 THEN MetaErr("Incomplete")
    ELSE
        LET d == ThreeOutOfSixDecode(buffer, 12 * 6)
        IN  IF d.tag = "Ok"
            THEN IF Len(d.bytes) # 12 THEN MetaErr("Panic")
                 ELSE IF is_valid_crc(d.bytes)
                 THEN MetaFrom("ModeTMTO", 0, FFA_get_frame_length(buffer))
                 ELSE MetaErr("NoneOk")
            ELSE MetaErr("NoneOk")

\* the L field taken from the first byte as received, without 3oo6 decoding
decode_modet_raw(buffer) ==
    IF Len(buffer) < 3 THEN MetaErr("Incomplete")
    ELSE MetaFrom("ModeTMTO", 0, FFA_get_frame_length(buffer))

decode_modet(buffer) ==
    IF Len(buffer) < 3 THEN MetaErr("Incomplete")
    ELSE
        LET d == ThreeOutOfSixDecode(buffer, 12)
        IN  IF d.tag # "Ok" THEN MetaErr3oo6(d)
            ELSE IF Len(d.bytes) # 1 THEN MetaErr("Panic")
            ELSE MetaFrom("ModeTMTO", 0, FFA_get_frame_length(d.bytes))

\* the popcount of the whole first byte
first_byte_is_3oo6(buffer) == count_ones(buffer[1]) = 3

first_is_3oo6(buffer) == count_ones(buffer[1] \div 4) = 3
second_is_3oo6(buffer) ==
    count_ones(buffer[1] % 4) + count_ones(buffer[2] \div 16) = 3

AssumeModeCFFB(buffer) == MetaFrom("ModeCFFB", 0, FFB_get_frame_length(buffer))

FrameMetadataRead(buffer) ==
    IF Len(buffer) < DERIVE_FRAME_LENGTH_MIN THEN MetaErr("Incomplete")
    ELSE IF buffer[1] = 84 THEN decode_modec(buffer)
    ELSE IF buffer[2] = 68
    THEN IF first_is_3oo6(buffer) /\ second_is_3oo6(buffer)
         THEN LET r == try_decode_first_modet_block(buffer)
              IN  IF r.tag = "NoneOk" THEN AssumeModeCFFB(buffer) ELSE r
         ELSE AssumeModeCFFB(buffer)
    ELSE decode_modet(buffer)

(***************************************************************************)
(* address.rs: the 8 address bytes of the DLL header.  A BcdNumber<4> is   *)
(* its four BCD bytes, most significant first.                             *)
(***************************************************************************)
HYD == 8996     \* 0x2324
DME == 4517     \* 0x11A5
KAM == 11309    \* 0x2C2D

Reverse(s) == [i \in 1..Len(s) |-> s[Len(s) + 1 - i]]

IsBcdByte(b) == (b \div 16) <= 9 /\ (b % 16) <= 9
BcdDigits(b) == 10 * (b \div 16) + (b % 16)

\* BcdNumber::<4>::from_bcd_bytes: Option of the number
from_bcd_bytes(bytes) ==
    IF \A i \in 1..4 : IsBcdByte(bytes[i]) THEN <<bytes>> ELSE <<>>

\* BcdNumber::value
BcdValue(n) ==
    1000000 * BcdDigits(n[1]) + 10000 * BcdDigits(n[2])
    + 100 * BcdDigits(n[3]) + BcdDigits(n[4])

\* BcdNumber::new(value) for value < 10^8
BcdNew(value) ==
    [i \in 1..4 |->
        LET pair == (value \div (CASE i = 1 -> 1000000 [] i = 2 -> 10000
                                   [] i = 3 -> 100 [] OTHER -> 1)) % 100
        IN  16 * (pair \div 10) + (pair % 10)]

parse_bcd_le(bytes_le) == from_bcd_bytes(Reverse(bytes_le))

u16_from_le_bytes(b) == b[1] + 256 * b[2]

WMBusAddress(manufacturer_code, serial_number, version, device_type) ==
    [manufacturer_code |-> manufacturer_code,
     serial_number |-> BcdNew(serial_number),
     version |-> version, device_type |-> device_type]

\* every fingerprint selects the default layout
get_layout_default(value) == "Default"

get_layout(value) ==
    LET manufacturer_code == u16_from_le_bytes(SubSeq(value, 1, 2))
        version == value[3]
        device_type == value[4]
        serial == parse_bcd_le(SubSeq(value, 5, 8))
    IN  IF manufacturer_code = HYD
        THEN IF (device_type = 4 \/ device_type = 12) /\ version = 32
             THEN IF /\ serial # <<>>
                     /\ \/ (BcdValue(serial[1]) >= 44000000
                            /\ BcdValue(serial[1]) < 48350000)
                        \/ (BcdValue(serial[1]) >= 51200000
                            /\ BcdValue(serial[1]) < 51273000)
                  THEN "Diehl" ELSE "Default"
             ELSE IF device_type = 4 /\ version \in {42, 43, 46, 47}
             THEN "Diehl"
             ELSE IF device_type = 6 /\ version = 139 THEN "Diehl"
             ELSE IF device_type = 7 /\ version \in {133, 134, 139}
             THEN "Diehl"
             ELSE IF device_type = 12 /\ version \in {46, 47, 83}
             THEN "Diehl"
             ELSE IF device_type = 22 /\ version = 37 THEN "Diehl"
             ELSE "Default"
        ELSE IF manufacturer_code = DME
        THEN IF device_type = 7 /\ version = 120 THEN "Diehl" ELSE "Default"
        ELSE "Default"

AddrOk(a) == [tag |-> "Ok", address |-> <<a>>]
AddrErr(e) == [tag |-> e, address |-> <<>>]

\* WMBusAddress::from_bytes
from_bytes(value) ==
    LET manufacturer_code == u16_from_le_bytes(SubSeq(value, 1, 2))
    IN  IF get_layout(value) = "Default"
        THEN LET serial == parse_bcd_le(SubSeq(value, 3, 6))
             IN  IF serial = <<>> THEN AddrErr("SerialNumberBcd")
                 ELSE AddrOk([manufacturer_code |-> manufacturer_code,
                              serial_number |-> serial[1],
                              version |-> value[7], device_type |-> value[8]])
        ELSE LET serial == parse_bcd_le(SubSeq(value, 5, 8))
             IN  IF serial = <<>> THEN AddrErr("SerialNumberBcd")
                 ELSE AddrOk([manufacturer_code |-> manufacturer_code,
                              serial_number |-> serial[1],
                              version |-> value[3], device_type |-> value[4]])

\* the serial number written most significant byte first
get_bytes_be(a) ==
    <<a.manufacturer_code % 256, a.manufacturer_code \div 256>>
    \o a.serial_number \o <<a.version, a.device_type>>

\* WMBusAddress::get_bytes
get_bytes(a) ==
    <<a.manufacturer_code % 256, a.manufacturer_code \div 256>>
    \o Reverse(a.serial_number) \o <<a.version, a.device_type>>

(***************************************************************************)
(* The protocol stack (stack/mod.rs, phl/mod.rs, phl/ffa.rs, phl/ffb.rs,   *)
(* dll.rs, ell.rs, apl.rs).  A stack is Phl<Dll<Ell<Apl>>> (Stack::new) or *)
(* Phl<Dll<Apl>> (Stack::without_ell); Ell::write is todo!(), so only the *)
(* latter writes a packet.                                                 *)
(* An Option is the empty sequence or a sequence of one value.             *)
(***************************************************************************)
Packet_new(mode) ==
    [frame_len |-> <<>>, rssi |-> <<>>, mode |-> mode, phl |-> <<>>,
     dll |-> <<>>, ell |-> <<>>, apl |-> <<>>]

DllFields(control, address) == [control |-> control, address |-> address]

u16_to_be_bytes(x) == <<x \div 256, x % 256>>

\* Result<Vec<u8, DATA_MAX>, Error> of the CRC stripping
TrimOk(data) == [tag |-> "Ok", index |-> 0, data |-> data]
TrimErr(e, i) == [tag |-> e, index |-> i, data |-> <<>>]

\* Result<Packet, ReadError>
ReadOk(packet) == [tag |-> "Ok", index |-> 0, packet |-> <<packet>>]
ReadErr(e, i) == [tag |-> e, index |-> i, packet |-> <<>>]

\* impl From<phl::Error> for ReadError
PhlReadErr(r) ==
    IF r.tag \in {"Incomplete", "Panic"} THEN ReadErr(r.tag, 0)
    ELSE ReadErr("Phl." \o r.tag, r.index)

\* block `index` of buffer.chunks(size)
Chunk(buffer, size, index) ==
    SubSeq(buffer, size * index + 1, Min(Len(buffer), size * (index + 1)))

\* the loop of FFA::read over other_blocks.chunks(16 + 2)
RECURSIVE FFA_read_blocks(_, _, _)
FFA_read_blocks(other_blocks, index, data) ==
    LET block == Chunk(other_blocks, FFA_OTHER_BLOCK_MAX_DATA_LENGTH + 2, index)
    IN  IF (FFA_OTHER_BLOCK_MAX_DATA_LENGTH + 2) * index >= Len(other_blocks)
        THEN TrimOk(data)
        ELSE IF Len(block) < 2 THEN TrimErr("Panic", 0)
        ELSE IF ~is_valid_crc(block) THEN TrimErr("Crc", 1 + index)
        ELSE IF Len(data) + Len(block) - 2 > FFA_MAX_DATA_LENGTH
        THEN TrimErr("Panic", 0)
        ELSE FFA_read_blocks(other_blocks, index + 1,
                             data \o SubSeq(block, 1, Len(block) - 2))

\* FFA::read (the FrameFormat::trim_crc of frame format A)
FFA_read(buffer) ==
    LET r == FFA_get_frame_length(buffer)
        first_block == SubSeq(buffer, 1, FFA_FIRST_BLOCK_DATA_LENGTH + 2)
    IN  IF r.tag # "Ok" THEN TrimErr(r.tag, 0)
        ELSE IF Len(buffer) < r.len THEN TrimErr("Incomplete", 0)
        ELSE IF ~is_valid_crc(first_block) THEN TrimErr("Crc", 0)
        ELSE FFA_read_blocks(SliceFrom(buffer, FFA_FIRST_BLOCK_DATA_LENGTH + 2),
                             0, SubSeq(first_block, 1, Len(first_block) - 2))

\* the loop of FFB::trim_crc over buffer.chunks(10 + 116 + 2)
RECURSIVE FFB_trim_blocks(_, _, _, _)
FFB_trim_blocks(buffer, size, index, data) ==
    LET block == Chunk(buffer, size, index)
    IN  IF size * index >= Len(buffer) THEN TrimOk(data)
        ELSE IF Len(block) < 2 THEN TrimErr("Panic", 0)
        ELSE IF ~is_valid_crc(block) THEN TrimErr("Crc", index)
        ELSE IF Len(data) + Len(block) - 2 > FFB_DATA_MAX
        THEN TrimErr("Panic", 0)
        ELSE FFB_trim_blocks(buffer, size, index + 1,
                             data \o SubSeq(block, 1, Len(block) - 2))

\* blocks of 125 + 2 bytes
FFB_trim_crc_125(buffer) ==
    LET r == FFB_get_frame_length(buffer)
    IN  IF r.tag # "Ok" THEN TrimErr(r.tag, 0)
        ELSE IF Len(buffer) < r.len THEN TrimErr("Incomplete", 0)
        ELSE FFB_trim_blocks(buffer, 125 + 2, 0, <<>>)

\* FFB::trim_crc
FFB_trim_crc(buffer) ==
    LET r == FFB_get_frame_length(buffer)
    IN  IF r.tag # "Ok" THEN TrimErr(r.tag, 0)
        ELSE IF Len(buffer) < r.len THEN TrimErr("Incomplete", 0)
        ELSE FFB_trim_blocks(buffer,
                             FFB_FIRST_BLOCK_DATA_LENGTH
                             + FFB_SECOND_BLOCK_MAX_DATA_LENGTH + 2, 0, <<>>)

\* Apl::read into a Packet<DEFAULT_APL_MAX>
Apl_read(packet, buffer) ==
    IF Len(buffer) > DEFAULT_APL_MAX THEN ReadErr("Capacity", 0)
    ELSE ReadOk([packet EXCEPT !.apl = buffer])

\* what a write leaves in the BytesMut: Ok(()), or the call panicked
WriteOk(writer) == [tag |-> "Ok", writer |-> writer]
WritePanic(writer) == [tag |-> "Panic", writer |-> writer]

\* Apl::write
Apl_write(writer, packet) == WriteOk(writer \o packet.apl)

\* Stack::new and Stack::without_ell: the layer above the DLL
Stack_new == [above |-> "Ell"]
Stack_without_ell == [above |-> "Apl"]

u32_from_le_bytes(b) ==
    b[1] + 256 * b[2] + 65536 * b[3] + 16777216 * b[4]

\* the four variants of EllFields; a field a variant lacks is absent
EllFields(variant, cc, acc, dest, sn, payload_crc) ==
    [variant |-> variant, cc |-> cc, acc |-> acc, dest |-> dest, sn |-> sn,
     payload_crc |-> payload_crc]

\* every CI byte has the length of the longest header
header_length_longest(ci) ==
    IF ci \in {140, 141, 142, 143} THEN <<1 + 16>> ELSE <<>>

\* header_length: 0x8C, 0x8D, 0x8E, 0x8F
header_length(ci) ==
    CASE ci = 140 -> <<1 + 2>>
      [] ci = 141 -> <<1 + 8>>
      [] ci = 142 -> <<1 + 10>>
      [] ci = 143 -> <<1 + 16>>
      [] OTHER -> <<>>

\* Ell::read above Apl
Ell_read(packet, buffer) ==
    IF buffer = <<>> \/ header_length(buffer[1]) = <<>>
    THEN Apl_read(packet, buffer)
    ELSE
        LET hl == header_length(buffer[1])[1]
            dest == from_bytes(SubSeq(buffer, 4, 11))
            ell == CASE buffer[1] = 140 ->
                          EllFields("Short", buffer[2], buffer[3], <<>>, <<>>, <<>>)
                     [] buffer[1] = 141 ->
                          EllFields("Long", buffer[2], buffer[3], <<>>,
                                    <<u32_from_le_bytes(SubSeq(buffer, 4, 7))>>,
                                    <<u16_from_le_bytes(SubSeq(buffer, 8, 9))>>)
                     [] buffer[1] = 142 ->
                          EllFields("ShortDest", buffer[2], buffer[3],
                                    dest.address, <<>>, <<>>)
                     [] OTHER ->
                          EllFields("LongDest", buffer[2], buffer[3], dest.address,
                                    <<u32_from_le_bytes(SubSeq(buffer, 12, 15))>>,
                                    <<u16_from_le_bytes(SubSeq(buffer, 16, 17))>>)
        IN  IF Len(buffer) < hl THEN ReadErr("Incomplete", 0)
            ELSE IF buffer[1] \in {142, 143} /\ dest.tag # "Ok"
            THEN ReadErr("Ell.BcdConversion", 0)
            ELSE Apl_read([packet EXCEPT !.ell = <<ell>>], SliceFrom(buffer, hl))

\* Ell::write: todo!()
Ell_write(writer, packet) == WritePanic(writer)

\* Dll::read
Dll_read(self, packet, buffer) ==
    IF Len(buffer) < HEADER_LENGTH THEN ReadErr("Incomplete", 0)
    ELSE LET address == from_bytes(SubSeq(buffer, 3, 10))
             fields == [packet EXCEPT
                           !.dll = <<DllFields(buffer[2], address.address[1])>>]
         IN  IF address.tag # "Ok" THEN ReadErr("Dll.BcdConversion", 0)
             ELSE IF self.above = "Ell"
             THEN Ell_read(fields, SliceFrom(buffer, HEADER_LENGTH))
             ELSE Apl_read(fields, SliceFrom(buffer, HEADER_LENGTH))

\* Dll::write (packet.dll is Some in every packet written here): the control
\* byte and the address, then the layer above
Dll_write(self, writer, packet) ==
    LET fields == packet.dll[1]
        header == Append(writer, fields.control) \o get_bytes(fields.address)
    IN  IF self.above = "Ell" THEN Ell_write(header, packet)
        ELSE Apl_write(header, packet)

\* no buffer starts with a syncword
starts_with_nothing(buffer, prefix) == FALSE

starts_with(buffer, prefix) ==
    Len(buffer) >= Len(prefix) /\ SubSeq(buffer, 1, Len(prefix)) = prefix

\* Phl::read, Mode T arm: the even number of whole symbols of the buffer is
\* decoded into decode_buf = [0; FFA::FRAME_MAX]; the write of byte FRAME_MAX
\* (after an even and an odd symbol that are both valid) is out of bounds
decode_into_frame_buf(buffer) ==
    LET symbols == 2 * (((Len(buffer) * 8) \div 6) \div 2)
        decoded == ThreeOutOfSixDecode(buffer, 6 * symbols)
    IN  IF /\ symbols > 2 * FFA_FRAME_MAX
           /\ decoded.tag # "InputLength"
           /\ (decoded.tag = "Ok" \/ decoded.sym > 2 * FFA_FRAME_MAX + 1)
        THEN [tag |-> "Panic", sym |-> 0, bytes |-> <<>>]
        ELSE decoded

\* every mode is read as Mode C, frame format A, without a syncword
Phl_read_plain_ffa(self, packet, buffer) ==
    LET payload == FFA_read(buffer)
    IN  IF payload.tag # "Ok" THEN PhlReadErr(payload)
        ELSE Dll_read(self, packet, payload.data)

\* Phl::read
Phl_read(self, packet, buffer) ==
    IF packet.mode = "ModeTMTO"
    THEN LET decoded == decode_into_frame_buf(buffer)
             payload == FFA_read(decoded.bytes)
         IN  IF decoded.tag = "Panic" THEN ReadErr("Panic", 0)
             ELSE IF decoded.tag # "Ok"
             THEN ReadErr("Phl.ThreeOutOfSix." \o decoded.tag, decoded.sym)
             ELSE IF payload.tag # "Ok" THEN PhlReadErr(payload)
             ELSE Dll_read(self, packet, payload.data)
    ELSE IF packet.mode = "ModeCFFA"
    THEN LET offset == IF starts_with(buffer, <<84, 205>>) THEN 2 ELSE 0
             payload == FFA_read(SliceFrom(buffer, offset))
         IN  IF payload.tag # "Ok" THEN PhlReadErr(payload)
             ELSE Dll_read(self, packet, payload.data)
    ELSE LET offset == IF starts_with(buffer, <<84, 61>>) THEN 2 ELSE 0
             payload == FFB_trim_crc(SliceFrom(buffer, offset))
         IN  IF payload.tag # "Ok" THEN PhlReadErr(payload)
             ELSE Dll_read(self, packet, payload.data)

\* Phl::write: a dummy L field, the layers above, then L and the CRCs
Phl_write(self, writer, packet) ==
    LET start == Len(writer)
        above == Dll_write(self, Append(writer, 0), packet)
        w1 == above.writer
        len == Len(w1) - start
        first_len == FFB_FIRST_BLOCK_DATA_LENGTH + FFB_SECOND_BLOCK_MAX_DATA_LENGTH
        \* `as u8`
        l_field == (IF len <= first_len THEN len + 2 - 1 ELSE len + 2 + 2 - 1) % 256
        w2 == [w1 EXCEPT ![start + 1] = l_field]
    IN  IF above.tag # "Ok" THEN above
        ELSE IF len <= first_len
        THEN WriteOk(w2 \o u16_to_be_bytes(Crc16(SliceFrom(w2, start))))
        ELSE
            LET w3 == w2 \o <<0, 0>>
                written == Len(w3)
                \* copy_within(start + first_len..written - 2, start + first_len + 2)
                w4 == [i \in 1..written |->
                         IF i > start + first_len + 2 THEN w3[i - 2] ELSE w3[i]]
                crc1 == Crc16(SubSeq(w4, start + 1, start + first_len))
                w5 == [w4 EXCEPT ![start + first_len + 1] = crc1 \div 256,
                                 ![start + first_len + 2] = crc1 % 256]
                second_data == SliceFrom(w5, start + first_len + 2)
            IN  WriteOk(w5 \o u16_to_be_bytes(Crc16(second_data)))

\* Stack::read
Stack_read(self, buffer, mode) ==
    Phl_read(self, [Packet_new(mode) EXCEPT !.frame_len = <<Len(buffer)>>], buffer)

\* Stack::write
Stack_write(self, writer, packet) == Phl_write(self, writer, packet)

NoPayload == TrimErr("NoResult", 0)
NoRead == ReadErr("NoResult", 0)

(***************************************************************************)
(* Inputs of FrameMetadata::read: every head of up to three bytes over     *)
(* HeadBytes, continued byte by byte along one of the recorded frames.     *)
(*   84 = 0x54, 205 = 0xCD, 61 = 0x3D (Mode C syncwords), 68 = 0x44,       *)
(*   9, 10, 12: L fields around the FFA and FFB minima, 255: the largest L,*)
(*   55 = 0x37 and 79 = 0x4F: both candidate symbols have three bits set,  *)
(*   31 = 0x1F: three bits set but no 3oo6 codeword,                       *)
(*   90 = 0x5A, 151 = 0x97: a Mode T L field (tests::can_derive_..).       *)
(***************************************************************************)
HeadBytes == {84, 205, 61, 68, 9, 10, 12, 255, 55, 79, 31, 90, 151}

\* 3oo6 encoding of the block 1C 7A 2D 2C 78 56 34 12 01 32 + CRC, then zeros
ModeTBlock ==
    <<55, 68, 230, 59, 19, 180, 78, 198, 90, 45, 195, 78, 88, 210, 206, 151,
      73, 139, 0, 0, 0, 0, 0, 0>>
\* tests::can_derive_frame_length, the Mode C FFA frame of tests/stack.rs
ModeCBlock ==
    <<78, 68, 45, 44, 152, 39, 4, 103, 48, 4, 145, 83, 122, 166, 16, 64, 37,
      109, 0, 0, 0, 0, 0, 0>>
Recorded == {ModeTBlock, ModeCBlock}

PhlHeads ==
    {<<>>} \cup {<<a>> : a \in HeadBytes}
    \cup {<<a, b>> : a \in HeadBytes, b \in HeadBytes}
    \cup {<<a, b, c>> : a \in HeadBytes, b \in HeadBytes, c \in HeadBytes}


\* one more byte arrives: the buffer grows along a recorded frame
PhlFeed ==
    /\ Len(phlBuf) >= DERIVE_FRAME_LENGTH_MIN
    /\ Len(phlBuf) < MaxPhlLen
    /\ \E t \in Recorded :
          /\ Len(phlBuf) < Len(t)
          /\ SliceFrom(phlBuf, 3) = SubSeq(t, 4, Len(phlBuf))
          /\ phlBuf' = Append(phlBuf, t[Len(phlBuf) + 1])
    /\ phlRes' = NoResult
    /\ phlPrev' = IF phlPrev = NoResult /\ phlRes.tag \notin {"NoResult", "Incomplete"}
                  THEN phlRes ELSE phlPrev
    /\ UNCHANGED NotPhl

\* FrameMetadata::read(&phlBuf)
PhlRead ==
    /\ phlRes = NoResult
    /\ phlRes' = FrameMetadataRead(phlBuf)
    /\ UNCHANGED <<phlBuf, phlPrev>>
    /\ UNCHANGED NotPhl

(***************************************************************************)
(* The transceiver (ctrl/traits.rs) is the environment: every call may     *)
(* succeed or fail, a read may deliver 0..MaxChunk bytes.  An Option is a  *)
(* sequence of length at most one: <<>> is None, <<v>> is Some(v).         *)
(***************************************************************************)
None == <<>>
Some(v) == <<v>>

RssiValues == {-90}

\* the frames on the air; past its end a frame reads as zero bytes
AirFrames ==
    { <<84, 61, 12>>,       \* 54 3D 0C: Mode C FFB with syncword, length 13
      <<84, 205, 10>>,      \* 54 CD 0A: Mode C FFA with syncword, length 15
      <<84, 0, 0>>,         \* 54 00: bad syncword
      <<84, 61, 9>>,        \* 54 3D 09: FFB L field below the minimum
      <<12, 68, 0>>,        \* 0C 44: Mode C FFB without syncword, length 13
      <<31, 68, 0>>,        \* 1F 44: two candidate symbols, no codeword
      ModeTBlock,           \* 37 44: a 3oo6 block with a valid CRC
      <<90, 151, 28>>,      \* 5A 97 1C: Mode T, L = 0x0F
      <<84, 205, 255>>,     \* 54 CD FF: Mode C FFA, the longest frame (290)
      <<0, 0, 0>> }         \* not a 3oo6 symbol

AirByte(a, p) == IF p <= Len(a) THEN a[p] ELSE 0
AirChunk(a, from, n) == [j \in 1..n |-> AirByte(a, from + j)]


Call(o, a, k) == [op |-> o, arg |-> a, ok |-> k]

\* Frame::default()
DefaultFrame ==
    [timestamp |-> None, rssi |-> None, buffer |-> <<>>, received |-> 0,
     channel |-> None, length |-> None]

NoToken == [id |-> 0, timestamp |-> None]

\* phl::derive_frame_length: (channel, length), NotEnoughBytes or another error
derive_frame_length(buffer) ==
    LET m == FrameMetadataRead(buffer)
    IN  IF m.tag = "Ok" THEN [tag |-> "Ok", channel |-> m.mode, length |-> m.frame_length]
        ELSE IF m.tag = "Incomplete"
        THEN [tag |-> "NotEnoughBytes", channel |-> "None", length |-> 0]
        ELSE [tag |-> m.tag, channel |-> "None", length |-> 0]

(***************************************************************************)
(* Controller (ctrl/controller.rs)                                         *)
(***************************************************************************)
CtrlInit ==
    /\ listening = FALSE
    /\ pc = "api"
    /\ frame = DefaultFrame
    /\ token = NoToken
    /\ air = <<>>
    /\ held = None
    /\ op = "new"
    /\ calls = <<>>
    /\ pass = <<>>
    /\ rx = FALSE
    /\ started = 0
    /\ status = <<>>
    /\ accepts = 0
    /\ yielded = <<>>
    /\ item = None

StreamLocals == <<frame, token, air, held, accepts, pass>>
History == <<started, status, yielded>>

\* assert!(!self.listening) failed: the call panics before any transceiver call
AssertFailed(name) ==
    /\ op' = name
    /\ calls' = <<>>
    /\ pc' = "panicked"
    /\ item' = None
    /\ UNCHANGED <<listening, rx, StreamLocals, History, NotCtrl>>

\* a transceiver call completes with Ok or Err ("ok", "err"), or is pending
\* ("pend") when its caller is polled
Outcomes == {"ok", "err", "pend"}
Completed == {"ok", "err"}

\* the one transceiver call of a Controller method: it completes with Ok or
\* Err, or the caller drops the method's future while the call is pending
\* and no call completes
Awaited(name, res) ==
    IF res = "pend" THEN <<>> ELSE <<Call(name, 0, res = "ok")>>

\* Controller::init: listening = false, then init().await
Init_ ==
    /\ pc = "api"
    /\ \E res \in Outcomes :
          /\ listening' = FALSE
          /\ calls' = Awaited("init", res)
    /\ op' = "Init"
    /\ rx' = FALSE
    /\ item' = None
    /\ UNCHANGED <<pc, StreamLocals, History, NotCtrl>>

\* Controller::write
Write ==
    /\ pc = "api"
    /\ IF listening THEN AssertFailed("Write")
       ELSE /\ \E res \in Outcomes : calls' = Awaited("write", res)
            /\ op' = "Write"
            /\ item' = None
            /\ UNCHANGED <<listening, pc, rx, StreamLocals, History, NotCtrl>>

\* Controller::transmit
Transmit ==
    /\ pc = "api"
    /\ IF listening THEN AssertFailed("Transmit")
       ELSE /\ \E res \in Outcomes : calls' = Awaited("transmit", res)
            /\ op' = "Transmit"
            /\ item' = None
            /\ UNCHANGED <<listening, pc, rx, StreamLocals, History, NotCtrl>>

\* Controller::receive: listen()?, listening = true, the stream is returned unpolled
Receive ==
    /\ pc = "api"
    /\ IF listening THEN AssertFailed("Receive")
       ELSE /\ \E res \in Outcomes :
                 /\ calls' = Awaited("listen", res)
                 /\ listening' = (res = "ok")
                 /\ rx' = (res = "ok")
                 /\ pc' = IF res = "ok" THEN "receive" ELSE "api"
            /\ op' = "Receive"
            /\ item' = None
            /\ UNCHANGED <<StreamLocals, History, NotCtrl>>

\* listening cleared before the `?`: a failed idle() leaves RX mode too
IdleResultEarly(ok) == FALSE

\* Controller::idle: idle()?, listening = false
IdleResult(ok) == IF ok THEN FALSE ELSE listening

Idle ==
    /\ pc = "api"
    /\ \E res \in Outcomes :
          /\ calls' = Awaited("idle", res)
          /\ listening' = IdleResult(res = "ok")
          /\ rx' = IF res = "ok" THEN FALSE ELSE rx
    /\ op' = "Idle"
    /\ item' = None
    /\ UNCHANGED <<pc, StreamLocals, History, NotCtrl>>

\* the awaits of receive_stream (lines 96-99, 106-109, 119, 122, 143, 144)
SuspensionPoints == {"receive", "read", "accept", "get_rssi", "idle", "listen"}

\* a Drop handler that idles the radio
DropCallsIdle == <<Call("idle", 0, TRUE)>>

\* the caller drops the stream at one of its suspension points: the stream
\* has no Drop handler, its locals go away and nothing else happens
DropCalls == <<>>

DropStream ==
    /\ pc \in SuspensionPoints
    /\ pc' = "api"
    /\ op' = "DropStream"
    /\ calls' = DropCalls
    /\ frame' = DefaultFrame
    /\ token' = NoToken
    /\ air' = <<>>
    /\ accepts' = 0
    /\ pass' = <<>>
    /\ held' = None
    /\ status' = [i \in 1..Len(status) |->
                    IF status[i] = "reading" THEN "dropped" ELSE status[i]]
    /\ item' = None
    /\ UNCHANGED <<listening, rx, started, yielded, NotCtrl>>

\* Controller::release
Release ==
    /\ pc = "api"
    /\ pc' = "released"
    /\ op' = "Release"
    /\ calls' = <<>>
    /\ item' = None
    /\ UNCHANGED <<listening, rx, StreamLocals, History, NotCtrl>>

(***************************************************************************)
(* Controller::receive_stream, one action per await of the outer loop.     *)
(***************************************************************************)
\* lines 96-102: receive(DERIVE_FRAME_LENGTH_MIN).await.unwrap(), a fresh frame
NewFrame(ts) == [DefaultFrame EXCEPT !.timestamp = ts]

StreamReceive ==
    /\ pc = "receive"
    /\ started < MaxFrames
    /\ op' = "StreamReceive"
    /\ \E ok \in BOOLEAN :
          /\ calls' = <<Call("receive", DERIVE_FRAME_LENGTH_MIN, ok)>>
          /\ IF ok
             THEN \E a \in AirFrames, ts \in {None, Some(started + 1)} :
                     /\ token' = [id |-> started + 1, timestamp |-> ts]
                     /\ air' = a
                     /\ frame' = NewFrame(ts)
                     /\ started' = started + 1
                     /\ status' = Append(status, "reading")
                     /\ accepts' = 0
                     /\ pass' = <<>>
                     /\ held' = None
                     /\ pc' = "read"
             ELSE /\ pc' = "panicked"
                  /\ UNCHANGED <<frame, token, air, held, accepts, pass, started, status>>
    /\ item' = None
    /\ UNCHANGED <<listening, rx, yielded, NotCtrl>>

\* What the stream does from one suspension point of a pass of the inner
\* loop (lines 105-147) to the next.  Every await is a suspension point: the
\* call behind it completes ("ok", "err") in the same poll, or is left
\* pending ("pend") and the stream stays there until it is polled again or
\* dropped.  A step is [frame, calls, next, yield]: the frame afterwards, the
\* transceiver calls completed, where the stream stands, and whether the
\* frame is yielded.
Step(f, c, n, y) == [frame |-> f, calls |-> c, next |-> n, yield |-> y]

\* line 144: listen().await.unwrap(); break
OnIdleDone(f, c, listenRes) ==
    IF listenRes = "pend" THEN Step(f, c, "listen", FALSE)
    ELSE Step(f, Append(c, Call("listen", 0, listenRes = "ok")),
              IF listenRes = "ok" THEN "receive" ELSE "panicked", FALSE)

\* a read error that only abandons the frame, without restarting the receiver
OnReadErrorNoRestart(f, c, idleRes, listenRes) == Step(f, c, "receive", FALSE)

\* lines 141-146: idle().await.unwrap(); listen().await.unwrap(); break
OnReadError(f, c, idleRes, listenRes) ==
    IF idleRes = "pend" THEN Step(f, c, "idle", FALSE)
    ELSE IF idleRes = "err"
    THEN Step(f, Append(c, Call("idle", 0, FALSE)), "panicked", FALSE)
    ELSE OnIdleDone(f, Append(c, Call("idle", 0, TRUE)), listenRes)

\* NotEnoughBytes treated like the other errors
OnNotEnoughBytesBreak(f, c) == Step(f, c, "receive", FALSE)

\* lines 125-128: continue
OnNotEnoughBytes(f, c) == Step(f, c, "read", FALSE)

\* a derivation error that restarts the receiver like a read error does
OnDeriveErrorRestart(f, c) ==
    Step(f, c \o <<Call("idle", 0, TRUE), Call("listen", 0, TRUE)>>, "receive", FALSE)

\* lines 129-132: break
OnDeriveError(f, c) == Step(f, c, "receive", FALSE)

\* the comparison is missing: the frame is yielded as soon as its length is known
OnLengthKnownEager(f, c) ==
    IF f.length # None
    THEN Step(f, c, "receive", TRUE)
    ELSE Step(f, c, "read", FALSE)

\* `>` for `>=`: the frame is held back until one more byte than its length
OnLengthKnownStrict(f, c) ==
    IF f.length # None /\ f.received > f.length[1]
    THEN Step(f, c, "receive", TRUE)
    ELSE Step(f, c, "read", FALSE)

\* the break after the yield is missing: the stream keeps reading the frame
OnLengthKnownNoBreak(f, c) ==
    IF f.length # None /\ f.received >= f.length[1]
    THEN Step(f, c, "read", TRUE)
    ELSE Step(f, c, "read", FALSE)

\* lines 136-140: yield frame; break
OnLengthKnown(f, c) ==
    IF f.length # None /\ f.received >= f.length[1]
    THEN Step(f, c, "receive", TRUE)
    ELSE Step(f, c, "read", FALSE)

\* line 122: frame.rssi = Some(get_rssi().await.unwrap()), then lines 136-140
OnAccepted(f, c, rssiRes, rssi) ==
    IF rssiRes = "pend" THEN Step(f, c, "get_rssi", FALSE)
    ELSE IF rssiRes = "err"
    THEN Step(f, Append(c, Call("get_rssi", 0, FALSE)), "panicked", FALSE)
    ELSE OnLengthKnown([f EXCEPT !.rssi = Some(rssi)],
                       Append(c, Call("get_rssi", 0, TRUE)))

\* lines 119-124: accept(length).await.unwrap(); channel, length; get_rssi
OnDerived(f, c, d, acceptRes, rssiRes, rssi) ==
    IF acceptRes = "pend" THEN Step(f, c, "accept", FALSE)
    ELSE IF acceptRes = "err"
    THEN Step(f, Append(c, Call("accept", d.length, FALSE)), "panicked", FALSE)
    ELSE OnAccepted([f EXCEPT !.channel = Some(d.channel), !.length = Some(d.length)],
                    Append(c, Call("accept", d.length, TRUE)), rssiRes, rssi)

\* the `if frame.length.is_none()` guard is missing: every read derives again
OnReadOkAlwaysDerive(f, c, chunk, acceptRes, rssiRes, rssi) ==
    LET g == [f EXCEPT !.buffer = f.buffer \o chunk,
                       !.received = f.received + Len(chunk)]
        d == derive_frame_length(g.buffer)
    IN  IF d.tag = "Ok" THEN OnDerived(g, c, d, acceptRes, rssiRes, rssi)
        ELSE IF d.tag = "NotEnoughBytes" THEN OnNotEnoughBytes(g, c)
        ELSE IF d.tag = "Panic" THEN Step(g, c, "panicked", FALSE)
        ELSE OnDeriveError(g, c)

\* lines 111-140: a read of n bytes succeeded
OnReadOk(f, c, chunk, acceptRes, rssiRes, rssi) ==
    LET g == [f EXCEPT !.buffer = f.buffer \o chunk,
                       !.received = f.received + Len(chunk)]
        d == derive_frame_length(g.buffer)
    IN  IF g.length = None
        THEN IF d.tag = "Ok" THEN OnDerived(g, c, d, acceptRes, rssiRes, rssi)
             ELSE IF d.tag = "NotEnoughBytes" THEN OnNotEnoughBytes(g, c)
             ELSE IF d.tag = "Panic" THEN Step(g, c, "panicked", FALSE)
             ELSE OnDeriveError(g, c)
        ELSE OnLengthKnown(g, c)

Finished(st) ==
    [i \in 1..Len(status) |-> IF i = token.id THEN st ELSE status[i]]

Count(cs, name) == Cardinality({i \in 1..Len(cs) : cs[i].op = name})

\* the stream takes the step st; before holds the calls the pass had
\* completed when the stream was suspended
Take(st, before) ==
    /\ calls' = st.calls
    /\ pass' = before \o st.calls
    /\ frame' = st.frame
    /\ held' = IF st.next = "accept"
               THEN Some(derive_frame_length(st.frame.buffer)) ELSE None
    /\ pc' = st.next
    /\ accepts' = accepts + Count(st.calls, "accept")
    /\ yielded' = IF st.yield THEN Append(yielded, token.id) ELSE yielded
    /\ item' = IF st.yield THEN Some(st.frame) ELSE None
    /\ status' = IF st.yield THEN Finished("yielded")
                 ELSE IF st.next = "panicked" THEN Finished("panicked")
                 ELSE IF st.next = "receive"
                 THEN Finished(IF (before \o st.calls)[1].ok
                               THEN "derive_error" ELSE "read_error")
                 ELSE status

\* lines 106-109: read(&mut token, &mut frame.buffer[frame.received..]).await
\* completes, and the pass goes on to its next suspension point
StreamRead ==
    /\ pc = "read"
    /\ op' = "StreamRead"
    /\ \/ \E idleRes \in Outcomes, listenRes \in Outcomes :
             Take(OnReadError(frame, <<Call("read", frame.received, FALSE)>>,
                              idleRes, listenRes), <<>>)
       \/ \E n \in 0..Min(MaxChunk, FRAME_MAX - frame.received),
             acceptRes \in Outcomes, rssiRes \in Outcomes, rssi \in RssiValues :
             Take(OnReadOk(frame, <<Call("read", frame.received, TRUE)>>,
                           AirChunk(air, frame.received, n),
                           acceptRes, rssiRes, rssi), <<>>)
    /\ UNCHANGED <<listening, rx, token, air, started, NotCtrl>>

\* line 119: the pending accept(&mut token, length).await completes; channel
\* and length are the ones derived before the await
StreamAccept ==
    /\ pc = "accept"
    /\ op' = "StreamAccept"
    /\ \E acceptRes \in Completed, rssiRes \in Outcomes, rssi \in RssiValues :
          Take(OnDerived(frame, <<>>, held[1], acceptRes, rssiRes, rssi), pass)
    /\ UNCHANGED <<listening, rx, token, air, started, NotCtrl>>

\* line 122: the pending get_rssi().await completes
StreamGetRssi ==
    /\ pc = "get_rssi"
    /\ op' = "StreamGetRssi"
    /\ \E rssiRes \in Completed, rssi \in RssiValues :
          Take(OnAccepted(frame, <<>>, rssiRes, rssi), pass)
    /\ UNCHANGED <<listening, rx, token, air, started, NotCtrl>>

\* line 143: the pending idle().await completes
StreamIdle ==
    /\ pc = "idle"
    /\ op' = "StreamIdle"
    /\ \E idleRes \in Completed, listenRes \in Outcomes :
          Take(OnReadError(frame, <<>>, idleRes, listenRes), pass)
    /\ UNCHANGED <<listening, rx, token, air, started, NotCtrl>>

\* line 144: the pending listen().await completes
StreamListen ==
    /\ pc = "listen"
    /\ op' = "StreamListen"
    /\ \E listenRes \in Completed :
          Take(OnIdleDone(frame, <<>>, listenRes), pass)
    /\ UNCHANGED <<listening, rx, token, air, started, NotCtrl>>

(***************************************************************************)
(* Stack::write and Stack::read applied to the bounded packets: Mode C     *)
(* frame format B, written by a stack without ELL, carried over the air    *)
(* (where a byte may be damaged) and read back.                            *)
(***************************************************************************)
\* APL lengths 0..MaxShortApl, and BoundaryApl around the limits of the code
MaxShortApl == 12

\* 115..118: around the largest single block (10 + 116 data bytes);
\* 241..243: around the largest frame L can count (256 bytes);
\* 246: DEFAULT_APL_MAX, the capacity of Packet
BoundaryApl == {115, 116, 117, 118, 241, 242, 243, DEFAULT_APL_MAX}
AplLengths == (0..MaxShortApl) \cup BoundaryApl

\* the payloads of tests::can_write_modecffb_*: a CI byte, then 00 01 02 ..
AplOf(ci, n) == [i \in 1..n |-> IF i = 1 THEN ci ELSE (i - 2) % 256]

\* tests::can_write_modecffb_two_blocks, parse_hydromenter_default
Addresses ==
    { WMBusAddress(KAM, 12345678, 1, 50),
      WMBusAddress(HYD, 44818914, 32, 4) }

Packets ==
    { [Packet_new("ModeCFFB") EXCEPT !.dll = <<DllFields(68, a)>>,
                                     !.apl = AplOf(ci, n)] :
        a \in Addresses, ci \in {160, 120}, n \in AplLengths }

\* a data block followed by its CRC
Sealed(data) == data \o u16_to_be_bytes(Crc16(data))

\* frames of another sender: 129 and 130 bytes, i.e. a first block of
\* 126 + 2 bytes and a second block of one byte, resp. of a CRC and no data
ForeignFrames ==
    { Sealed(<<128, 68>> \o get_bytes(WMBusAddress(KAM, 12345678, 1, 50))
             \o AplOf(160, 116)) \o <<0>>,
      Sealed(<<129, 68>> \o get_bytes(WMBusAddress(KAM, 12345678, 1, 50))
             \o AplOf(160, 116)) \o Sealed(<<>>) }

\* the wire positions a transmission error may hit: the C field, the first
\* block's CRC of a long frame, a byte of the second block
DamageAt == {2, 127, 130}

StackWrite ==
    /\ stackPc = "new"
    /\ LET written == Stack_write(stack, wire, pkt)
       IN  /\ wire' = written.writer
           /\ stackPc' = IF written.tag = "Ok" THEN "written" ELSE "panicked"
    /\ UNCHANGED <<stack, pkt, intact, trimmed, readRes>>
    /\ UNCHANGED NotStack

WireDamage ==
    /\ stackPc = "written"
    /\ intact
    /\ \E at \in DamageAt :
          /\ at <= Len(wire)
          /\ wire' = [wire EXCEPT ![at] = 255 - @]
    /\ intact' = FALSE
    /\ UNCHANGED <<stack, pkt, stackPc, trimmed, readRes>>
    /\ UNCHANGED NotStack

StackRead ==
    /\ stackPc = "written"
    /\ trimmed' = FFB_trim_crc(SliceFrom(wire,
                     IF starts_with(wire, <<84, 61>>) THEN 2 ELSE 0))
    /\ readRes' = Stack_read(stack, wire, pkt.mode)
    /\ stackPc' = "read"
    /\ UNCHANGED <<stack, pkt, wire, intact>>
    /\ UNCHANGED NotStack

(***************************************************************************)
(* ThreeOutOfSix::encode and ::decode applied to the bounded inputs: a     *)
(* source of up to MaxSrcLen bytes encoded into a zeroed buffer and decoded*)
(* again, or any slice of a received buffer of up to MaxTosBytes bytes     *)
(* decoded.                                                                *)
(***************************************************************************)
MaxSrcLen == 2
MaxTosBytes == 3

\* every nibble value occurs as a high and as a low nibble
SourceBytes == {16 * n + (15 - n) : n \in 0..15}

\* 59 65 96: the encoding of 00 00 00; 34 E5: symbols of 0x12 ..; 5A 97: an L
\* field; 00 and FF: no codeword
ReceivedBytes == {89, 101, 150, 52, 229, 90, 151, 0, 255}

SeqsUpTo(S, n) == UNION {[1..k -> S] : k \in 0..n}

NoEnc == EncErr("NoResult", <<>>)
NoDec == [tag |-> "NoResult", sym |-> 0, bytes |-> <<>>]

TosEncode ==
    /\ tosEnc = NoEnc
    /\ tosBits = 0
    /\ LET r == ThreeOutOfSixEncode(tosBuf, tosSrc)
       IN  /\ tosEnc' = [r EXCEPT !.buffer = <<>>]
           /\ tosBuf' = r.buffer
           /\ tosBits' = r.written
    /\ tosDec' = NoDec
    /\ UNCHANGED tosSrc
    /\ UNCHANGED NotTos

TosDecode ==
    /\ tosDec = NoDec
    /\ tosDec' = ThreeOutOfSixDecode(tosBuf, tosBits)
    /\ UNCHANGED <<tosSrc, tosBuf, tosBits, tosEnc>>
    /\ UNCHANGED NotTos

(***************************************************************************)
(* FFA length derivation applied to every data length an L field can give  *)
(* (1 + u8) and to 0, in ascending order from any starting point.          *)
(***************************************************************************)
NoLen == LenErr("NoResult")

FfaDerive ==
    /\ ffaRes = NoLen
    /\ ffaRes' = get_frame_length_from_data_length(ffaLen)
    /\ UNCHANGED <<ffaLen, ffaPrev>>
    /\ UNCHANGED NotFfa

\* the next data length
FfaLonger ==
    /\ ffaRes # NoLen
    /\ ffaLen < FFA_MAX_DATA_LENGTH
    /\ ffaLen' = ffaLen + 1
    /\ ffaPrev' = ffaRes
    /\ ffaRes' = NoLen
    /\ UNCHANGED NotFfa

(***************************************************************************)
(* WMBusAddress::from_bytes and ::get_bytes applied to the bounded inputs: *)
(* a manufacturer, the two bytes a Diehl meter uses for version and device *)
(* type, and four more bytes.                                              *)
(***************************************************************************)
\* HYD, DME, KAM, least significant byte first
ManufacturerBytes == {<<36, 35>>, <<165, 17>>, <<45, 44>>}

\* the versions of get_layout's fingerprints (0x20, 0x2A, 0x2B, 0x2E, 0x2F,
\* 0x8B, 0x85, 0x86, 0x53, 0x25, 0x78) and 0x14, in none of them
VersionBytes == {32, 42, 43, 46, 47, 139, 133, 134, 83, 37, 120, 20}

\* the device types of the fingerprints (0x04, 0x06, 0x07, 0x0C, 0x16), and 0x89
DeviceBytes == {4, 6, 7, 12, 22, 137}

\* serial numbers at the ends of the Sharky 775 ranges: 43999999, 44000000,
\* 48349999, 48350000, 51199999, 51200000, 51272999, 51273000; 81 44 20 04
\* and 47 35 04 09 from the tests; 61 04 3A 48, which is no BCD number
SerialTails ==
    { <<153, 153, 153, 67>>, <<0, 0, 0, 68>>, <<153, 153, 52, 72>>,
      <<0, 0, 53, 72>>, <<153, 153, 25, 81>>, <<0, 0, 32, 81>>,
      <<153, 41, 39, 81>>, <<0, 48, 39, 81>>,
      <<129, 68, 32, 4>>, <<71, 53, 4, 9>>, <<97, 4, 58, 72>> }

\* the four bytes may also repeat the two before them
AddrInputs ==
    { m \o <<v, t>> \o tail :
        m \in ManufacturerBytes, v \in VersionBytes, t \in DeviceBytes,
        tail \in SerialTails }
    \cup { m \o <<v, t, v, t, v, t>> :
             m \in ManufacturerBytes, v \in VersionBytes, t \in DeviceBytes }

NoAddr == AddrErr("NoResult")

\* WMBusAddress::from_bytes(addrIn)
AddrParse ==
    /\ addrRes = NoAddr
    /\ addrLayout' = get_layout(addrIn)
    /\ addrRes' = from_bytes(addrIn)
    /\ UNCHANGED <<addrIn, addrOut>>
    /\ UNCHANGED NotAddr

\* address.get_bytes()
AddrWrite ==
    /\ addrRes.tag = "Ok"
    /\ addrOut = <<>>
    /\ addrOut' = <<get_bytes(addrRes.address[1])>>
    /\ UNCHANGED <<addrIn, addrLayout, addrRes>>
    /\ UNCHANGED NotAddr

(***************************************************************************)
(* Ell::read applied to the bounded inputs: a first byte, a length and a   *)
(* filling of the bytes behind the first.                                  *)
(***************************************************************************)
MaxEllLen == 19

\* the four CI bytes of the ELL (0x8C..0x8F), their neighbours 0x8B and 0x90,
\* and 0x7A and 0x00
EllFirstBytes == {140, 141, 142, 143, 139, 144, 122, 0}

\* 24 23 85 07 47 35 04 09 (tests::parse_hydromenter_reversed)
DiehlDest == <<36, 35, 133, 7, 71, 53, 4, 9>>

\* "bcd": every byte is two decimal digits; "raw": no byte is;
\* "diehl": the destination address is DiehlDest
EllFills == {"bcd", "raw", "diehl"}

EllFill(fill, i) ==
    CASE fill = "bcd" -> 17 * (i % 10)
      [] fill = "raw" -> 26 + 16 * (i % 6)
      [] OTHER -> IF i \in 4..11 THEN DiehlDest[i - 3] ELSE i

EllRegion(ci, n, fill) == [i \in 1..n |-> IF i = 1 THEN ci ELSE EllFill(fill, i)]

EllRegions ==
    { EllRegion(ci, n, fill) :
        ci \in EllFirstBytes, n \in 0..MaxEllLen, fill \in EllFills }

\* Ell::read(&mut Packet::new(mode), ellIn)
EllRead ==
    /\ ellRes = NoRead
    /\ ellRes' = Ell_read(Packet_new("ModeCFFB"), ellIn)
    /\ UNCHANGED ellIn
    /\ UNCHANGED NotEll

(***************************************************************************)
(* Stack::read applied to received frames: frames of both formats sealed   *)
(* block by block, and what a receiver may get instead of them (bytes      *)
(* missing, bytes following, a damaged byte, a leading syncword).  Each is *)
(* read as it is, behind a Mode C syncword, and 3oo6 encoded.              *)
(***************************************************************************)
\* tests/stack.rs, can_read_modec_ffa
RecordedFfaFrame ==
    <<
      78, 68, 45, 44, 152, 39, 4, 103, 48, 4, 145, 83, 122, 166, 16, 64,
      37, 109, 60, 160, 247, 47, 241, 239, 6, 128, 108, 80, 161, 4, 33,
      203, 209, 50, 227, 177, 208, 17, 106, 5, 87, 105, 110, 14, 55, 194,
      233, 240, 134, 54, 254, 49, 246, 142, 107, 77, 238, 94, 56, 83, 22,
      194, 22, 169, 110, 39, 125, 72, 177, 69, 146, 114, 56, 97, 70, 247,
      140, 119, 102, 213, 25, 252, 68, 73, 153, 58, 218, 90, 173, 149, 165>>

\* the blocks behind the first of a format A frame
RECURSIVE SealedFfaBlocks(_)
SealedFfaBlocks(data) ==
    IF data = <<>> THEN <<>>
    ELSE LET n == Min(Len(data), FFA_OTHER_BLOCK_MAX_DATA_LENGTH)
         IN  Sealed(SubSeq(data, 1, n)) \o SealedFfaBlocks(SliceFrom(data, n))

\* data (L field first) laid out in format A resp. format B
SealedFfa(data) ==
    Sealed(SubSeq(data, 1, FFA_FIRST_BLOCK_DATA_LENGTH))
    \o SealedFfaBlocks(SliceFrom(data, FFA_FIRST_BLOCK_DATA_LENGTH))

SealedFfb(data) ==
    LET first_len == FFB_FIRST_BLOCK_DATA_LENGTH + FFB_SECOND_BLOCK_MAX_DATA_LENGTH
    IN  IF Len(data) <= first_len THEN Sealed(data)
        ELSE Sealed(SubSeq(data, 1, first_len)) \o Sealed(SliceFrom(data, first_len))

\* L, C = 0x44, the address of tests::can_read_modec_ffb, an APL
FrameData(l, ci, n) ==
    <<l, 68>> \o get_bytes(WMBusAddress(KAM, 12345678, 1, 50)) \o AplOf(ci, n)

\* APL lengths: one byte; a short last block; 16 and 32: full blocks only;
\* 17: a last block of one byte; FFA_APL_MAX: the longest frame (290 bytes)
FfaAplLengths == {1, 3, 16, 17, 32, FFA_APL_MAX}
\* 116: the first block is full; 117: an optional block of one byte
FfbAplLengths == {1, 8, 116, 117}
\* 0x7A: no ELL; 0x8C: a short ELL header
RdCiBytes == {122, 140}

FfaFrames ==
    { SealedFfa(FrameData(9 + n, ci, n)) : n \in FfaAplLengths, ci \in RdCiBytes }
    \cup {RecordedFfaFrame}

FfbFrames ==
    { SealedFfb(FrameData(IF n <= 116 THEN 11 + n ELSE 13 + n, ci, n)) :
        n \in FfbAplLengths, ci \in RdCiBytes }
    \cup ForeignFrames

\* what may arrive for the frame g whose format has the given syncword
Receptions(g, syncword) ==
    { g,
      g \o <<0>>,
      g \o <<255, 255>>,
      SubSeq(g, 1, Len(g) - 1),
      SubSeq(g, 1, 1),
      [g EXCEPT ![5] = 255 - @],
      [g EXCEPT ![Len(g)] = 255 - @],
      syncword \o g }

RdFrames ==
    {<<>>}
    \cup UNION { Receptions(g, <<84, 205>>) : g \in FfaFrames }
    \cup UNION { Receptions(g, <<84, 61>>) : g \in FfbFrames }

Modes == {"ModeCFFA", "ModeCFFB", "ModeTMTO"}

Syncword(mode) == IF mode = "ModeCFFA" THEN <<84, 205>> ELSE <<84, 61>>

\* the test's encode_buf: zero bits, rounded up to the nearest byte boundary
EncodeBuf(source) == [j \in 1..((Len(source) * 2 * 6 + 7) \div 8) |-> 0]

\* Phl::read's `payload`
PhlPayload(buffer, mode) ==
    IF mode = "ModeCFFA"
    THEN FFA_read(SliceFrom(buffer, IF starts_with(buffer, <<84, 205>>) THEN 2 ELSE 0))
    ELSE IF mode = "ModeCFFB"
    THEN FFB_trim_crc(SliceFrom(buffer, IF starts_with(buffer, <<84, 61>>) THEN 2 ELSE 0))
    ELSE LET decoded == decode_into_frame_buf(buffer)
         IN  IF decoded.tag = "Ok" THEN FFA_read(decoded.bytes)
             ELSE IF decoded.tag = "Panic" THEN TrimErr("Panic", 0)
             ELSE TrimErr("ThreeOutOfSix." \o decoded.tag, decoded.sym)

\* stack.read(rdFrame, rdMode)
RdRead ==
    /\ rdRes = NoRead
    /\ rdTrim' = PhlPayload(rdFrame, rdMode)
    /\ rdRes' = Stack_read(rdStack, rdFrame, rdMode)
    /\ UNCHANGED <<rdStack, rdFrame, rdMode, rdSync, rdModeT>>
    /\ UNCHANGED NotRd

\* stack.read(syncword ++ rdFrame, rdMode)
RdReadSync ==
    /\ rdRes # NoRead
    /\ rdSync = NoRead
    /\ rdMode # "ModeTMTO"
    /\ rdSync' = Stack_read(rdStack, Syncword(rdMode) \o rdFrame, rdMode)
    /\ UNCHANGED <<rdStack, rdFrame, rdMode, rdTrim, rdRes, rdModeT>>
    /\ UNCHANGED NotRd

\* tests/stack.rs, can_read_modet: ThreeOutOfSix::encode(rdFrame), then
\* stack.read(encoded, Mode::ModeTMTO)
RdReadModeT ==
    /\ rdRes # NoRead
    /\ rdModeT = NoRead
    /\ rdMode = "ModeCFFA"
    /\ rdModeT' = Stack_read(rdStack,
                             ThreeOutOfSixEncode(EncodeBuf(rdFrame), rdFrame).buffer,
                             "ModeTMTO")
    /\ UNCHANGED <<rdStack, rdFrame, rdMode, rdTrim, rdRes, rdSync>>
    /\ UNCHANGED NotRd

PhlIdle ==
    /\ phlBuf = <<>>
    /\ phlRes = NoResult
    /\ phlPrev = NoResult

TosIdle ==
    /\ tosSrc = <<>>
    /\ tosBuf = <<>>
    /\ tosBits = 0
    /\ tosEnc = NoEnc
    /\ tosDec = NoDec

FfaIdle ==
    /\ ffaLen = 0
    /\ ffaRes = NoLen
    /\ ffaPrev = NoLen

AddrIdle ==
    /\ addrIn = <<>>
    /\ addrLayout = "None"
    /\ addrRes = NoAddr
    /\ addrOut = <<>>

EllIdle ==
    /\ ellIn = <<>>
    /\ ellRes = NoRead

RdIdle ==
    /\ rdStack = Stack_new
    /\ rdFrame = <<>>
    /\ rdMode = "ModeCFFB"
    /\ rdTrim = NoPayload
    /\ rdRes = NoRead
    /\ rdSync = NoRead
    /\ rdModeT = NoRead

StackIdle ==
    /\ stack = Stack_new
    /\ pkt = Packet_new("ModeCFFB")
    /\ wire = <<>>
    /\ stackPc = "idle"
    /\ intact = FALSE
    /\ trimmed = NoPayload
    /\ readRes = NoRead

Init ==
    /\ CtrlInit
    /\ PhlIdle
    /\ StackIdle
    /\ TosIdle
    /\ FfaIdle
    /\ AddrIdle
    /\ EllIdle
    /\ RdIdle

Next ==
    \/ Init_
    \/ Write
    \/ Transmit
    \/ Receive
    \/ Idle
    \/ DropStream
    \/ Release
    \/ StreamReceive
    \/ StreamRead
    \/ StreamAccept
    \/ StreamGetRssi
    \/ StreamIdle
    \/ StreamListen

Spec == Init /\ [][Next]_vars

\* a read that completes with an error or with at least one byte
StreamReadSome ==
    StreamRead /\ (calls'[1].ok => frame'.received > frame.received)

\* a step of the stream out of an await inside a pass
StreamProgress ==
    StreamReadSome \/ StreamAccept \/ StreamGetRssi \/ StreamIdle \/ StreamListen

\* the receive session while the stream is polled: every transceiver call
\* of the stream completes, and a successful read does not return zero
\* bytes forever
\* Controller::receive has returned the stream: listen() succeeded
LiveInit ==
    /\ listening = TRUE
    /\ pc = "receive"
    /\ frame = DefaultFrame
    /\ token = NoToken
    /\ air = <<>>
    /\ held = None
    /\ op = "Receive"
    /\ calls = <<Call("listen", 0, TRUE)>>
    /\ pass = <<>>
    /\ rx = TRUE
    /\ started = 0
    /\ status = <<>>
    /\ accepts = 0
    /\ yielded = <<>>
    /\ item = None
    /\ PhlIdle
    /\ StackIdle
    /\ TosIdle
    /\ FfaIdle
    /\ AddrIdle
    /\ EllIdle
    /\ RdIdle

\* the receive session: the stream's steps, until the caller drops it
LiveNext ==
    \/ StreamReceive
    \/ StreamRead
    \/ StreamAccept
    \/ StreamGetRssi
    \/ StreamIdle
    \/ StreamListen
    \/ DropStream

SpecLive == LiveInit /\ [][LiveNext]_vars /\ WF_vars(StreamProgress)

(***************************************************************************)
(* FrameMetadata::read applied to the bounded inputs.                      *)
(***************************************************************************)
PhlInit ==
    /\ phlBuf \in PhlHeads
    /\ phlRes = NoResult
    /\ phlPrev = NoResult
    /\ CtrlInit
    /\ StackIdle
    /\ TosIdle
    /\ FfaIdle
    /\ AddrIdle
    /\ EllIdle
    /\ RdIdle

PhlNext ==
    \/ PhlFeed
    \/ PhlRead

SpecPhl == PhlInit /\ [][PhlNext]_vars

StackInit ==
    /\ stack \in {Stack_new, Stack_without_ell}
    /\ \/ /\ pkt \in Packets
          /\ wire = <<>>
          /\ stackPc = "new"
          /\ intact = TRUE
       \/ /\ pkt = Packet_new("ModeCFFB")
          /\ wire \in ForeignFrames
          /\ stackPc = "written"
          /\ intact = FALSE
    /\ trimmed = NoPayload
    /\ readRes = NoRead
    /\ CtrlInit
    /\ PhlIdle
    /\ TosIdle
    /\ FfaIdle
    /\ AddrIdle
    /\ EllIdle
    /\ RdIdle

StackNext ==
    \/ StackWrite
    \/ WireDamage
    \/ StackRead

SpecStack == StackInit /\ [][StackNext]_vars

TosInit ==
    /\ \/ /\ tosSrc \in SeqsUpTo(SourceBytes, MaxSrcLen)
          /\ tosBuf \in SeqsUpTo({0}, MaxTosBytes)
          /\ tosBits = 0
       \/ /\ tosSrc = <<>>
          /\ tosBuf \in SeqsUpTo(ReceivedBytes, MaxTosBytes)
          /\ tosBits \in 0..(8 * Len(tosBuf))
    /\ tosEnc = NoEnc
    /\ tosDec = NoDec
    /\ CtrlInit
    /\ PhlIdle
    /\ StackIdle
    /\ FfaIdle
    /\ AddrIdle
    /\ EllIdle
    /\ RdIdle

TosNext ==
    \/ TosEncode
    \/ TosDecode

SpecTos == TosInit /\ [][TosNext]_vars

FfaInit ==
    /\ ffaLen \in 0..FFA_MAX_DATA_LENGTH
    /\ ffaRes = NoLen
    /\ ffaPrev = NoLen
    /\ CtrlInit
    /\ PhlIdle
    /\ StackIdle
    /\ TosIdle
    /\ AddrIdle
    /\ EllIdle
    /\ RdIdle

FfaNext ==
    \/ FfaDerive
    \/ FfaLonger

SpecFfa == FfaInit /\ [][FfaNext]_vars

AddrInit ==
    /\ addrIn \in AddrInputs
    /\ addrLayout = "None"
    /\ addrRes = NoAddr
    /\ addrOut = <<>>
    /\ CtrlInit
    /\ PhlIdle
    /\ StackIdle
    /\ TosIdle
    /\ FfaIdle
    /\ EllIdle
    /\ RdIdle

AddrNext ==
    \/ AddrParse
    \/ AddrWrite

SpecAddr == AddrInit /\ [][AddrNext]_vars

EllInit ==
    /\ ellIn \in EllRegions
    /\ ellRes = NoRead
    /\ CtrlInit
    /\ PhlIdle
    /\ StackIdle
    /\ TosIdle
    /\ FfaIdle
    /\ AddrIdle
    /\ RdIdle

EllNext == EllRead

SpecEll == EllInit /\ [][EllNext]_vars

RdInit ==
    /\ rdStack \in {Stack_new, Stack_without_ell}
    /\ rdFrame \in RdFrames
    /\ rdMode \in Modes
    /\ rdTrim = NoPayload
    /\ rdRes = NoRead
    /\ rdSync = NoRead
    /\ rdModeT = NoRead
    /\ CtrlInit
    /\ PhlIdle
    /\ StackIdle
    /\ TosIdle
    /\ FfaIdle
    /\ AddrIdle
    /\ EllIdle

RdNext ==
    \/ RdRead
    \/ RdReadSync
    \/ RdReadModeT

SpecRead == RdInit /\ [][RdNext]_vars

(***************************************************************************)
(* Properties of the receive controller.  They read the history of the     *)
(* pass in progress: op, pass (the read first, then the calls that have    *)
(* completed since) and item.                                              *)
(***************************************************************************)
PassOps == {"StreamRead", "StreamAccept", "StreamGetRssi", "StreamIdle", "StreamListen"}
\* the awaits inside a pass of the inner loop
PassPoints == {"read", "accept", "get_rssi", "idle", "listen"}
InPass == op \in PassOps
ReadFailed == InPass /\ ~pass[1].ok
ReadSucceeded == InPass /\ pass[1].ok
CallNames == [i \in 1..Len(pass) |-> pass[i].op]
AllOk == \A i \in 1..Len(pass) : i = 1 \/ pass[i].ok
\* the bytes of the frame before the last read appended its own
BufferBefore == SubSeq(frame.buffer, 1, pass[1].arg)

\* C1: when transceiver.read fails, the controller calls idle and then listen
\* (listen once idle has returned; a failing idle or listen panics in unwrap;
\* while idle or listen is pending the stream is suspended there), yields no
\* Frame, abandons the frame and goes to transceiver.receive; the frame that
\* receive starts next is the empty Frame::default() but for the timestamp of
\* its own token.
C1_ReadErrorRestarts ==
    /\ ReadFailed =>
          /\ item = None
          /\ CallNames \in {<<"read">>, <<"read", "idle">>, <<"read", "idle", "listen">>}
          /\ Len(pass) = 1 => pc = "idle"
          /\ Len(pass) = 2 => pc = (IF pass[2].ok THEN "listen" ELSE "panicked")
          /\ Len(pass) = 3 => pass[2].ok
          /\ (Len(pass) = 3 /\ AllOk) =>
                /\ pc = "receive"
                /\ status[token.id] = "read_error"
          /\ (Len(pass) = 3 /\ ~AllOk) => pc = "panicked"
    /\ pc \in {"idle", "listen"} => (ReadFailed /\ status[token.id] = "reading")
    /\ (op = "StreamReceive" /\ calls[1].ok) =>
          /\ pc = "read"
          /\ frame.received = 0 /\ frame.buffer = <<>>
          /\ frame.length = None /\ frame.channel = None /\ frame.rssi = None
          /\ frame.timestamp = token.timestamp

\* a frame is yielded right after the frame before it was lost to a read error
C1_Witness ==
    /\ item # None
    /\ Len(status) = 2 /\ status[1] = "read_error" /\ status[2] = "yielded"
    /\ yielded = <<2>>

\* the derivation on the bytes received so far ended in an error other than
\* NotEnoughBytes (Syncword, InvalidLength, ThreeOutOfSix)
DeriveFailed ==
    /\ ReadSucceeded
    /\ frame.length = None
    /\ derive_frame_length(BufferBefore).tag = "NotEnoughBytes"
    /\ derive_frame_length(frame.buffer).tag \notin {"Ok", "NotEnoughBytes", "Panic"}

\* C2 as stated: a derivation error other than Incomplete makes the
\* controller call idle and then listen before it waits for the next frame.
C2_Original_DeriveErrorRestarts ==
    DeriveFailed =>
        /\ CallNames = <<"read", "idle", "listen">>
        /\ item = None

\* C2 amended: on a derivation error other than Incomplete the controller
\* abandons the frame without any further transceiver call (no accept, no
\* idle, no listen), yields no Frame and goes to transceiver.receive.
C2_DeriveErrorAbandons ==
    DeriveFailed =>
        /\ CallNames = <<"read">>
        /\ item = None
        /\ accepts = 0
        /\ pc = "receive"
        /\ status[token.id] = "derive_error"

C2_Witness ==
    /\ DeriveFailed
    /\ pc = "receive"
    /\ derive_frame_length(frame.buffer).tag = "InvalidLength"

\* C3: transceiver.accept is called at most once per frame, only in the pass
\* of the first successful read after which the derivation succeeds (at least
\* 3 bytes), with the derived length; get_rssi follows it; a frame that is
\* read on with a known length, and every yielded frame, has had its accept
\* and its RSSI.
C3_AcceptOncePerFrame ==
    /\ accepts <= 1
    /\ (pc \in {"read", "receive", "get_rssi"} /\ frame.length # None) => accepts = 1
    /\ (pc \in {"read", "accept"} /\ frame.length = None) => accepts = 0
    /\ pc = "accept" =>
          (frame.length = None /\ derive_frame_length(frame.buffer).tag = "Ok")
    /\ pc = "get_rssi" => (frame.length # None /\ frame.rssi = None)
    /\ (pc = "read" /\ frame.length # None) => frame.rssi # None
    /\ InPass =>
          /\ \A i \in 1..Len(pass) : pass[i].op = "accept" =>
                /\ i = 2
                /\ pass[1].ok
                /\ frame.received >= DERIVE_FRAME_LENGTH_MIN
                /\ derive_frame_length(frame.buffer).tag = "Ok"
                /\ pass[i].arg = derive_frame_length(frame.buffer).length
                /\ derive_frame_length(BufferBefore).tag = "NotEnoughBytes"
                /\ pass[i].ok =>
                      \/ Len(pass) = 3 /\ pass[3].op = "get_rssi"
                      \/ Len(pass) = 2 /\ pc = "get_rssi"
          /\ \A i \in 1..Len(pass) : pass[i].op = "get_rssi" =>
                (i = 3 /\ pass[2].op = "accept")
          /\ (ReadSucceeded /\ derive_frame_length(BufferBefore).tag = "NotEnoughBytes"
                /\ derive_frame_length(frame.buffer).tag = "Ok") =>
                \/ Len(pass) >= 2 /\ pass[2].op = "accept"
                \/ Len(pass) = 1 /\ pc = "accept"
    /\ item # None =>
          /\ accepts = 1
          /\ item[1].length = Some(derive_frame_length(item[1].buffer).length)
          /\ item[1].rssi # None

\* the length was committed in an earlier step and the frame is yielded now
C3_Witness ==
    /\ item # None
    /\ CallNames = <<"read">>
    /\ accepts = 1

\* C4: a yielded Frame has length, channel and RSSI set, the timestamp of its
\* own RxToken and received >= length; it is yielded by the first successful
\* read that brings received up to length, once; while the stream goes on
\* reading a frame, its length is unknown or received < length.
C4_YieldedFrameComplete ==
    /\ item # None =>
          /\ ReadSucceeded
          /\ item[1] = frame
          /\ frame.length # None /\ frame.channel # None /\ frame.rssi # None
          /\ frame.timestamp = token.timestamp
          /\ token.timestamp \in {None, Some(token.id)}
          /\ frame.received >= frame.length[1]
          /\ pass[1].arg < frame.length[1]
          /\ yielded[Len(yielded)] = token.id
          /\ \A i \in 1..(Len(yielded) - 1) : yielded[i] # token.id
          /\ status[token.id] = "yielded"
    /\ pc = "read" => (frame.length = None \/ frame.received < frame.length[1])
    /\ (item = None /\ InPass) => status[token.id] # "yielded"

\* a frame yielded with more bytes than its length, timestamp present
C4_Witness ==
    /\ item # None
    /\ item[1].received > item[1].length[1]
    /\ item[1].timestamp # None
    /\ item[1].channel = Some("ModeCFFA")

\* C5: while the controller is in RX mode (a receive() succeeded and since
\* then no idle() succeeded and init() was not called), write, transmit and
\* receive fail their assertion and issue no transceiver call; so a write,
\* transmit or listen forwarded by them is issued outside RX mode only.
C5_NoTxWhileListening ==
    [][ (op' \in {"Write", "Transmit", "Receive"} /\ rx) =>
            (pc' = "panicked" /\ calls' = <<>> /\ listening' = listening) ]_vars

\* write was refused after the stream was dropped with a frame yielded
C5_Witness ==
    /\ op = "Write"
    /\ pc = "panicked"
    /\ rx
    /\ Len(yielded) = 1

\* transceiver.idle completed with Ok in the last step
IdleSucceeded == calls # <<>> /\ calls[1].op = "idle" /\ calls[1].ok

\* C6: dropping the stream issues no transceiver call and leaves listening
\* set; listening goes from set to cleared only in idle() with a successful
\* transceiver.idle or in init(); an idle() whose transceiver.idle fails (or
\* that is dropped before it completes) leaves it as it was.
C6_DropDoesNotIdle ==
    [][ /\ op' = "DropStream" =>
              (calls' = <<>> /\ listening /\ listening' /\ rx' = rx)
        /\ (listening /\ ~listening') =>
              ((op' = "Idle" /\ IdleSucceeded') \/ op' = "Init")
        /\ (op' = "Idle" /\ ~IdleSucceeded') => listening' = listening
        /\ (op' = "Idle" /\ IdleSucceeded') => ~listening' ]_vars

\* the stream was dropped in the middle of a frame, then idle() failed
C6_Witness ==
    /\ op = "Idle"
    /\ calls = <<Call("idle", 0, FALSE)>>
    /\ listening
    /\ Len(status) = 1 /\ status[1] = "dropped"

\* C7: after a successful read with the length still unknown, the stream
\* goes on reading the same frame exactly when the derivation says
\* NotEnoughBytes: then it keeps the bytes and the timestamp, makes no
\* further transceiver call and its next call is another read; on any other
\* derivation error it leaves the frame.
C7_OnlyIncompleteLoops ==
    [][ (op' = "StreamRead" /\ calls'[1].ok /\ frame.length = None) =>
          LET d == derive_frame_length(frame'.buffer)
          IN  /\ d.tag = "NotEnoughBytes" =>
                    /\ pc' = "read"
                    /\ calls' = <<Call("read", frame.received, TRUE)>>
                    /\ SubSeq(frame'.buffer, 1, frame.received) = frame.buffer
                    /\ frame'.received = Len(frame'.buffer)
                    /\ frame'.received >= frame.received
                    /\ frame'.timestamp = frame.timestamp
                    /\ frame'.length = None
                    /\ token' = token
                    /\ status'[token.id] = "reading"
                    /\ item' = None
              /\ d.tag \notin {"Ok", "NotEnoughBytes"} =>
                    /\ pc' # "read"
                    /\ status'[token.id] # "reading"
                    /\ item' = None ]_vars

\* three or more bytes are in and the derivation still asks for more (the
\* 18-byte rule of the ambiguous 0x44 branch)
C7_Witness ==
    /\ ReadSucceeded
    /\ pc = "read"
    /\ frame.length = None
    /\ frame.received > DERIVE_FRAME_LENGTH_MIN
    /\ derive_frame_length(frame.buffer).tag = "NotEnoughBytes"

\* C8: at most one frame is being read, and it is the one started last;
\* every read belongs to it; frames are yielded in the order of their frame
\* starts, each at most once, and only while they are the frame in progress.
C8_FramesInOrder ==
    /\ \A i \in 1..Len(status) : status[i] = "reading" => i = started
    /\ Len(status) = started
    /\ InPass => token.id = started
    /\ \A i \in 1..Len(yielded) :
          /\ status[yielded[i]] = "yielded"
          /\ \A j \in 1..Len(yielded) : i < j => yielded[i] < yielded[j]
    /\ item # None => yielded[Len(yielded)] = started
    /\ pc \in PassPoints => status[started] = "reading"

\* two frames were started and yielded one after the other
C8_Witness ==
    /\ yielded = <<1, 2>>
    /\ status = <<"yielded", "yielded">>
    /\ item # None

(***************************************************************************)
(* Properties of FrameMetadata::read.                                      *)
(***************************************************************************)
Applied == phlRes # NoResult

\* the FFA rule: frame length of the data length d
FfaRule(d) ==
    IF d < 11 THEN MetaErr("InvalidLength")
    ELSE LET r == (d - 10) % 16
         IN  MetaOk("x", 0, 12 + 18 * ((d - 10) \div 16)
                            + (IF r > 0 THEN r + 2 ELSE 0))

Expect(mode, offset, rule) ==
    IF rule.tag = "Ok" THEN MetaOk(mode, offset, rule.frame_length) ELSE rule

\* C9: on fewer than 3 bytes the result is Incomplete; on a buffer starting
\* with 0x54 it is ModeCFFA for b[1] = 0xCD and ModeCFFB for b[1] = 0x3D, with
\* frame_offset 2 and the length given by the L byte b[2] (FFA: the frame
\* length of data length 1 + L; FFB: 1 + L, InvalidLength below 13), and
\* Syncword for any other b[1].
C9_ModeCSyncword ==
    Applied =>
        /\ Len(phlBuf) < 3 => phlRes = MetaErr("Incomplete")
        /\ (Len(phlBuf) >= 3 /\ phlBuf[1] = 84) =>
              /\ phlBuf[2] = 205 =>
                    phlRes = Expect("ModeCFFA", 2, FfaRule(1 + phlBuf[3]))
              /\ phlBuf[2] = 61 =>
                    phlRes = IF 1 + phlBuf[3] < 13 THEN MetaErr("InvalidLength")
                             ELSE MetaOk("ModeCFFB", 2, 1 + phlBuf[3])
              /\ phlBuf[2] \notin {205, 61} => phlRes = MetaErr("Syncword")

\* 54 CD FF: the longest FFA frame, 290 bytes
C9_Witness ==
    /\ phlBuf = <<84, 205, 255>>
    /\ phlRes = MetaOk("ModeCFFA", 2, 290)

\* C10 as stated: with b[0] # 0x54, b[1] = 0x44, both candidate symbols of
\* popcount 3 and at least 18 bytes, the first block (24 symbols, 12 bytes) is
\* decoded and CRC-checked; a passing block gives ModeTMTO, offset 0, with the
\* FFA length of the decoded L field; otherwise ModeCFFB, offset 0, 1 + b[0].
C10_FirstBlockDecides ==
    (/\ Applied
     /\ Len(phlBuf) >= 18
     /\ phlBuf[1] # 84
     /\ phlBuf[2] = 68
     /\ count_ones(phlBuf[1] \div 4) = 3
     /\ count_ones(phlBuf[1] % 4) + count_ones(phlBuf[2] \div 16) = 3) =>
        LET block == ThreeOutOfSixDecode(phlBuf, 12 * 12)
        IN  IF block.tag = "Ok" /\ is_valid_crc(block.bytes)
            THEN phlRes = Expect("ModeTMTO", 0, FfaRule(1 + block.bytes[1]))
            ELSE phlRes = MetaOk("ModeCFFB", 0, 1 + phlBuf[1])

\* the nibble a 6-bit codeword stands for (ENCODE_TABLE read backwards)
Codewords == {ENCODE_TABLE[i] : i \in 1..16}
NibbleOf(sym) == CHOOSE n \in 0..15 : ENCODE_TABLE[n + 1] = sym

\* the first two 6-bit symbols of a buffer, most significant bit first
FirstSymbol(b) == b[1] \div 4
SecondSymbol(b) == 16 * (b[1] % 4) + (b[2] \div 16)

\* C11: with b[0] # 0x54 and b[1] # 0x44 (at least 3 bytes) the first 12 bits
\* are 3oo6-decoded, MSB first, into one L byte: the result is ModeTMTO with
\* frame_offset 0 and the FFA frame length of data length 1 + L, a
\* ThreeOutOfSix error naming the first invalid symbol of the two, and
\* InvalidLength for L below 10.
C11_ModeTLengthField ==
    (Applied /\ Len(phlBuf) >= 3 /\ phlBuf[1] # 84 /\ phlBuf[2] # 68) =>
        IF FirstSymbol(phlBuf) \notin Codewords
        THEN phlRes = [MetaErr("ThreeOutOfSix.Symbol") EXCEPT !.sym = 0]
        ELSE IF SecondSymbol(phlBuf) \notin Codewords
        THEN phlRes = [MetaErr("ThreeOutOfSix.Symbol") EXCEPT !.sym = 1]
        ELSE LET L == 16 * NibbleOf(FirstSymbol(phlBuf))
                      + NibbleOf(SecondSymbol(phlBuf))
             IN  /\ phlRes = Expect("ModeTMTO", 0, FfaRule(1 + L))
                 /\ L < 10 => phlRes = MetaErr("InvalidLength")

\* 5A 97 ..: symbols 010110 101001, L = 0x0F, one full first block and a
\* second block of 6 + 2 bytes (tests::can_derive_frame_length)
C11_Witness ==
    /\ Len(phlBuf) >= 3
    /\ SubSeq(phlBuf, 1, 2) = <<90, 151>>
    /\ phlRes = MetaOk("ModeTMTO", 0, 20)

\* 5A 54 ..: symbols 010110 100101, L = 0x09, below the FFA minimum
C11_WitnessShort ==
    /\ Len(phlBuf) >= 3
    /\ SubSeq(phlBuf, 1, 2) = <<90, 84>>
    /\ phlRes = MetaErr("InvalidLength")

(***************************************************************************)
(* Properties of the stack: Mode C frame format B written and read back.   *)
(***************************************************************************)
Written == stackPc \in {"written", "read"} /\ intact
ReadBack == stackPc = "read" /\ intact

\* C12 as stated: for every ModeCFFB packet with a default-layout address and
\* an APL within the packet's capacity, Stack::read of what Stack::write
\* emitted succeeds and returns the same mode, control byte, address and APL.
C12_RoundTripModeCFFB ==
    ReadBack =>
        /\ readRes.tag = "Ok"
        /\ readRes.packet[1].mode = pkt.mode
        /\ readRes.packet[1].dll = pkt.dll
        /\ readRes.packet[1].apl = pkt.apl

\* C13 as stated: for every APL length up to the packet's capacity the L byte
\* is the number of bytes emitted minus 1, not reduced modulo 256, and FFB
\* length derivation on the output returns the emitted length.
C13_LFieldCountsFrame ==
    Written =>
        /\ wire[1] = Len(wire) - 1
        /\ FFB_get_frame_length(wire) = LenOk(Len(wire))

\* the output cut into the blocks of FFB::trim_crc: 128 bytes, the last shorter
BlockCount(buffer) == (Len(buffer) + 127) \div 128
BlockOf(buffer, k) == SubSeq(buffer, 128 * k + 1, Min(Len(buffer), 128 * k + 128))
DataOf(block) == SubSeq(block, 1, Len(block) - 2)
CrcOf(block) == 256 * block[Len(block) - 1] + block[Len(block)]

RECURSIVE DataUpTo(_, _)
DataUpTo(buffer, k) ==
    IF k < 0 THEN <<>>
    ELSE DataUpTo(buffer, k - 1) \o DataOf(BlockOf(buffer, k))

\* C15 as stated: every block of an emitted frame, cut as FFB::trim_crc cuts
\* it, ends with the big-endian CRC-16 of its own data bytes, and the data
\* of the blocks concatenated are L, C, the 8 address bytes and the APL, also
\* when the overflow was shifted right behind the first block's CRC.
C15_WrittenBlocksValid ==
    Written =>
        /\ \A k \in 0..(BlockCount(wire) - 1) :
              /\ Len(BlockOf(wire, k)) >= 2
              /\ CrcOf(BlockOf(wire, k)) = Crc16(DataOf(BlockOf(wire, k)))
              /\ is_valid_crc(BlockOf(wire, k))
        /\ DataUpTo(wire, BlockCount(wire) - 1)
             = <<wire[1], pkt.dll[1].control>>
               \o get_bytes(pkt.dll[1].address) \o pkt.apl

\* the wire holds exactly one frame: as many bytes as its L field announces
ExactFrame ==
    /\ stackPc = "read"
    /\ Len(wire) >= FFB_MIN_FRAME_LENGTH
    /\ Len(wire) = 1 + wire[1]
    /\ ~starts_with(wire, <<84, 61>>)

\* what CRC stripping returns for a frame b of one block, or of a first block
\* of firstData data bytes + 2 CRC bytes and a second block holding the rest
FfbLayout(b, firstData) ==
    LET fl == Len(b)
        one == SubSeq(b, 1, fl - 2)
        d1 == SubSeq(b, 1, firstData)
        c1 == 256 * b[firstData + 1] + b[firstData + 2]
        d2 == SubSeq(b, firstData + 3, fl - 2)
        c2 == 256 * b[fl - 1] + b[fl]
    IN  IF fl <= 128
        THEN IF Crc16(one) = c2 THEN TrimOk(one) ELSE TrimErr("Crc", 0)
        ELSE IF Crc16(d1) # c1 THEN TrimErr("Crc", 0)
        ELSE IF Crc16(d2) # c2 THEN TrimErr("Crc", 1)
        ELSE TrimOk(d1 \o d2)

\* C14 as stated: a frame of at most 128 bytes is one block of L - 1 data
\* bytes + 2 CRC bytes; a longer one is a first block of 125 data bytes + 2
\* CRC bytes and a second block of L - 128 data bytes + 2 CRC bytes.
C14_Original_Blocks125 == ExactFrame => trimmed = FfbLayout(wire, 125)

\* C14: a frame of at most 128 bytes is one block of L - 1 data bytes + 2 CRC
\* bytes; a longer one is a first block of 126 data bytes + 2 CRC bytes and a
\* second block of L - 129 data bytes + 2 CRC bytes (the CRC check aborts on
\* the one-byte second block of a 129-byte frame); FFB::trim_crc checks each
\* block's CRC over that block's data, reports the first failing block, and
\* returns the data of the blocks concatenated.
C14_Blocks126 ==
    ExactFrame =>
        IF Len(wire) = 129 /\ is_valid_crc(SubSeq(wire, 1, 128))
        THEN trimmed.tag = "Panic"
        ELSE trimmed = FfbLayout(wire, 126)

\* tests::can_write_modecffb_three_blocks: 126 + 2 bytes, then 1 + 2 bytes
C14_Witness ==
    /\ ExactFrame
    /\ Len(wire) = 131
    /\ trimmed.tag = "Ok"
    /\ Len(trimmed.data) = 127

\* a damaged byte in the second block is reported as Crc(1)
C14_WitnessSecondBlock ==
    /\ ExactFrame
    /\ trimmed = TrimErr("Crc", 1)

(***************************************************************************)
(* Properties of the 3-out-of-6 codec.                                     *)
(***************************************************************************)
Encoded == tosEnc.tag = "Ok"
Decoded == tosDec # NoDec

\* C16: encode writes exactly 12 * len(s) bits, the symbol of each byte's high
\* nibble before that of its low nibble and each symbol most significant bit
\* first, and decode of those bits returns len(s) bytes equal to s.
C16_EncodeDecodeRoundTrip ==
    Encoded =>
        /\ tosEnc.written = 12 * Len(tosSrc)
        /\ tosBits = 12 * Len(tosSrc)
        /\ \A i \in 1..Len(tosSrc) :
              /\ Symbol(tosBuf, 2 * i - 2) = ENCODE_TABLE[(tosSrc[i] \div 16) + 1]
              /\ Symbol(tosBuf, 2 * i - 1) = ENCODE_TABLE[(tosSrc[i] % 16) + 1]
        /\ Decoded =>
              /\ tosDec.tag = "Ok"
              /\ Len(tosDec.bytes) = Len(tosSrc)
              /\ tosDec.bytes = tosSrc

\* 1E F0 encoded into 24 bits and decoded again
C16_Witness ==
    /\ tosSrc = <<30, 240>>
    /\ Encoded
    /\ tosBits = 24
    /\ tosDec.tag = "Ok"
    /\ tosDec.bytes = <<30, 240>>

\* C17: decode fails with InputLength when the bit length is not a multiple
\* of 6 or the number of symbols is odd; otherwise with Symbol(k) exactly
\* when some symbol is none of the 16 codewords, k the position of the first
\* such symbol; otherwise it returns symbols / 2 bytes, each
\* (first symbol's nibble << 4) | second symbol's nibble.
C17_DecodeErrors ==
    Decoded =>
        LET n == tosBits \div 6
            bad == {k \in 0..(n - 1) : Symbol(tosBuf, k) \notin Codewords}
        IN  IF tosBits % 6 # 0 \/ n % 2 = 1
            THEN tosDec.tag = "InputLength"
            ELSE IF bad # {}
            THEN /\ tosDec.tag = "Symbol"
                 /\ tosDec.sym \in bad
                 /\ \A k \in bad : tosDec.sym <= k
            ELSE /\ tosDec.tag = "Ok"
                 /\ Len(tosDec.bytes) = n \div 2
                 /\ \A j \in 1..(n \div 2) :
                       tosDec.bytes[j]
                         = 16 * NibbleOf(Symbol(tosBuf, 2 * j - 2))
                           + NibbleOf(Symbol(tosBuf, 2 * j - 1))

\* 24 received bits whose first two symbols are codewords and whose third and
\* fourth are not
C17_Witness ==
    /\ tosBits = 24
    /\ Symbol(tosBuf, 3) \notin Codewords
    /\ tosDec.tag = "Symbol"
    /\ tosDec.sym = 2

(***************************************************************************)
(* Properties of the FFA length derivation.                                *)
(***************************************************************************)
\* C18: get_frame_length_from_data_length(d) is InvalidLength for d < 11 and
\* 12 + 18 * floor((d - 10) / 16) + (r > 0 ? r + 2 : 0), r = (d - 10) mod 16,
\* for d >= 11; on 11..256 it is at most 290 and does not decrease with d.
C18_FfaFrameLength ==
    ffaRes # NoLen =>
        /\ ffaLen < 11 => ffaRes = LenErr("InvalidLength")
        /\ ffaLen >= 11 =>
              LET r == (ffaLen - 10) % 16
              IN  ffaRes = LenOk(12 + 18 * ((ffaLen - 10) \div 16)
                                 + (IF r > 0 THEN r + 2 ELSE 0))
        /\ ffaLen \in 11..256 => ffaRes.len <= 290
        /\ (ffaLen \in 12..256 /\ ffaPrev # NoLen) =>
              /\ ffaPrev.tag = "Ok"
              /\ ffaPrev.len <= ffaRes.len

\* data length 256 after 255: 290 bytes after 289
C18_Witness ==
    /\ ffaLen = 256
    /\ ffaPrev = LenOk(289)
    /\ ffaRes = LenOk(290)

(***************************************************************************)
(* Properties of the address codec.                                        *)
(***************************************************************************)
Parsed == addrRes # NoAddr

\* four bytes, least significant first, read as eight decimal digits
IsBcd(bytes) == \A i \in 1..4 : (bytes[i] \div 16) < 10 /\ (bytes[i] % 16) < 10
Decimal(b) == 10 * (b \div 16) + (b % 16)
SerialOf(bytes) ==
    Decimal(bytes[1]) + 100 * Decimal(bytes[2]) + 10000 * Decimal(bytes[3])
    + 1000000 * Decimal(bytes[4])

\* the fingerprint table: (device type, version) at the Diehl positions
HydFingerprints ==
    { <<4, 42>>, <<4, 43>>, <<4, 46>>, <<4, 47>>, <<6, 139>>, <<7, 133>>,
      <<7, 134>>, <<7, 139>>, <<12, 46>>, <<12, 47>>, <<12, 83>>, <<22, 37>> }

Fingerprint(b) ==
    LET code == b[1] + 256 * b[2]
        tail == SubSeq(b, 5, 8)
    IN  \/ code = 8996 /\ <<b[4], b[3]>> \in HydFingerprints
        \/ code = 4517 /\ <<b[4], b[3]>> = <<7, 120>>
        \/ /\ code = 8996
           /\ b[4] \in {4, 12}
           /\ b[3] = 32
           /\ IsBcd(tail)
           /\ \/ SerialOf(tail) \in 44000000..48349999
              \/ SerialOf(tail) \in 51200000..51272999

FieldsOf(b, serial, version, device_type) ==
    /\ addrRes.tag = (IF IsBcd(serial) THEN "Ok" ELSE "SerialNumberBcd")
    /\ IsBcd(serial) =>
          /\ addrRes.address[1].manufacturer_code = b[1] + 256 * b[2]
          /\ BcdValue(addrRes.address[1].serial_number) = SerialOf(serial)
          /\ addrRes.address[1].version = version
          /\ addrRes.address[1].device_type = device_type

\* C19: from_bytes applies the Diehl layout (version = b[2], device type =
\* b[3], serial from b[4..8]) exactly when manufacturer, device type and
\* version at the Diehl positions match the fingerprint table, the Sharky 775
\* fingerprint (HYD, device 0x04 or 0x0C, version 0x20) only with a BCD serial
\* in [44000000, 48350000) or [51200000, 51273000); every other input is
\* parsed with the default layout (serial from b[2..6], version = b[6],
\* device type = b[7]).
C19_DiehlLayout ==
    Parsed =>
        /\ (addrLayout = "Diehl") <=> Fingerprint(addrIn)
        /\ addrLayout \in {"Diehl", "Default"}
        /\ addrLayout = "Diehl" =>
              FieldsOf(addrIn, SubSeq(addrIn, 5, 8), addrIn[3], addrIn[4])
        /\ addrLayout = "Default" =>
              FieldsOf(addrIn, SubSeq(addrIn, 3, 6), addrIn[7], addrIn[8])

\* 24 23 20 0C 99 99 34 48: HYD, Sharky 775, serial 48349999, the last of
\* the first range
C19_Witness ==
    /\ addrIn = <<36, 35, 32, 12, 153, 153, 52, 72>>
    /\ addrLayout = "Diehl"
    /\ addrRes.tag = "Ok"
    /\ BcdValue(addrRes.address[1].serial_number) = 48349999
    /\ addrRes.address[1].version = 32

\* 24 23 20 04 00 00 35 48: 48350000 is the first number behind that range,
\* so the bytes are read as serial 00000420, version 0x35, device type 0x48
C19_WitnessDefault ==
    /\ addrIn = <<36, 35, 32, 4, 0, 0, 53, 72>>
    /\ addrLayout = "Default"
    /\ addrRes.tag = "Ok"
    /\ BcdValue(addrRes.address[1].serial_number) = 420
    /\ addrRes.address[1].version = 53
    /\ addrRes.address[1].device_type = 72

Rewritten == addrOut # <<>>
DiehlOrder(b) == <<b[1], b[2], b[5], b[6], b[7], b[8], b[3], b[4]>>

\* C20 as stated: get_bytes returns b for an input parsed with the default
\* layout, and [b0, b1, b4, b5, b6, b7, b2, b3], which does not byte-match b,
\* for an input parsed with the Diehl layout.
C20_Original_DiehlNeverMatches ==
    Rewritten =>
        /\ addrLayout = "Default" => addrOut[1] = addrIn
        /\ addrLayout = "Diehl" =>
              /\ addrOut[1] = DiehlOrder(addrIn)
              /\ addrOut[1] # addrIn

\* C20: get_bytes always writes the default layout: it returns b for an input
\* parsed with the default layout and [b0, b1, b4, b5, b6, b7, b2, b3] for an
\* input parsed with the Diehl layout, which byte-matches b only if
\* b[2..4] = b[4..6] = b[6..8].
C20_GetBytesDefaultLayout ==
    Rewritten =>
        /\ addrOut[1] = <<addrRes.address[1].manufacturer_code % 256,
                          addrRes.address[1].manufacturer_code \div 256>>
                        \o Reverse(addrRes.address[1].serial_number)
                        \o <<addrRes.address[1].version,
                             addrRes.address[1].device_type>>
        /\ addrLayout = "Default" => addrOut[1] = addrIn
        /\ addrLayout = "Diehl" =>
              /\ addrOut[1] = DiehlOrder(addrIn)
              /\ (addrOut[1] = addrIn) <=>
                    (SubSeq(addrIn, 3, 4) = SubSeq(addrIn, 5, 6)
                     /\ SubSeq(addrIn, 5, 6) = SubSeq(addrIn, 7, 8))

\* tests::parse_hydromenter_reversed: 24 23 85 07 47 35 04 09 is written as
\* 24 23 47 35 04 09 85 07
C20_Witness ==
    /\ addrIn = <<36, 35, 133, 7, 71, 53, 4, 9>>
    /\ addrLayout = "Diehl"
    /\ addrOut = << <<36, 35, 71, 53, 4, 9, 133, 7>> >>

\* 24 23 85 07 85 07 85 07 is parsed with the Diehl layout and written as is
C20_WitnessSame ==
    /\ addrIn = <<36, 35, 133, 7, 133, 7, 133, 7>>
    /\ addrLayout = "Diehl"
    /\ addrOut = <<addrIn>>

(***************************************************************************)
(* Properties of the extended link layer.                                  *)
(***************************************************************************)
EllApplied == ellRes # NoRead

EllVariant(ci) ==
    CASE ci = 140 -> [name |-> "Short", length |-> 3]
      [] ci = 141 -> [name |-> "Long", length |-> 9]
      [] ci = 142 -> [name |-> "ShortDest", length |-> 11]
      [] ci = 143 -> [name |-> "LongDest", length |-> 17]

HasEllCi(b) == b # <<>> /\ b[1] \in {140, 141, 142, 143}

\* the variant is stored, its header consumed, the rest is the APL
EllStored(b) ==
    /\ ellRes.tag = "Ok"
    /\ ellRes.packet[1].ell # <<>>
    /\ ellRes.packet[1].ell[1].variant = EllVariant(b[1]).name
    /\ ellRes.packet[1].ell[1].cc = b[2]
    /\ ellRes.packet[1].ell[1].acc = b[3]
    /\ ellRes.packet[1].apl = SliceFrom(b, EllVariant(b[1]).length)

EllAbsent(b) ==
    /\ ellRes.tag = "Ok"
    /\ ellRes.packet[1].ell = <<>>
    /\ ellRes.packet[1].apl = b

\* C21 as stated: a first byte 0x8C..0x8F stores its variant and consumes 3,
\* 9, 11 or 17 bytes, or fails with Incomplete if fewer bytes are there; any
\* other first byte, or an empty region, leaves the ELL absent.
C21_Original_EllByCi ==
    EllApplied =>
        IF HasEllCi(ellIn)
        THEN IF Len(ellIn) < EllVariant(ellIn[1]).length
             THEN ellRes.tag = "Incomplete"
             ELSE EllStored(ellIn)
        ELSE EllAbsent(ellIn)

\* C21: a first byte 0x8C, 0x8D, 0x8E or 0x8F stores the variant Short, Long,
\* ShortDest or LongDest and consumes 3, 9, 11 or 17 bytes, the rest being
\* the APL; with fewer bytes than that the read fails with Incomplete; with
\* enough bytes but a destination address (0x8E, 0x8F) that from_bytes
\* rejects it fails with Ell(BcdConversion); any other first byte, or an
\* empty region, leaves packet.ell absent and the whole region is the APL.
C21_EllByCi ==
    EllApplied =>
        IF HasEllCi(ellIn)
        THEN IF Len(ellIn) < EllVariant(ellIn[1]).length
             THEN ellRes.tag = "Incomplete"
             ELSE IF /\ ellIn[1] \in {142, 143}
                     /\ from_bytes(SubSeq(ellIn, 4, 11)).tag # "Ok"
             THEN ellRes.tag = "Ell.BcdConversion"
             ELSE /\ EllStored(ellIn)
                  /\ ellIn[1] \in {142, 143} =>
                        ellRes.packet[1].ell[1].dest
                            = from_bytes(SubSeq(ellIn, 4, 11)).address
        ELSE EllAbsent(ellIn)

\* 0x8F, then cc, acc, a BCD destination, sn, payload_crc and two bytes of APL
C21_Witness ==
    /\ ellIn = EllRegion(143, 19, "bcd")
    /\ ellRes.tag = "Ok"
    /\ ellRes.packet[1].ell[1].variant = "LongDest"
    /\ ellRes.packet[1].apl = <<17 * 8, 17 * 9>>

\* 0x8E with 11 bytes whose destination serial is no BCD number
C21_WitnessBcd ==
    /\ ellIn = EllRegion(142, 11, "raw")
    /\ ellRes.tag = "Ell.BcdConversion"

\* 0x8D with 8 of the 9 bytes
C21_WitnessIncomplete ==
    /\ ellIn = EllRegion(141, 8, "bcd")
    /\ ellRes.tag = "Incomplete"

(***************************************************************************)
(* Properties of Stack::read.                                              *)
(***************************************************************************)
WasRead == rdRes # NoRead
Accepted == rdRes.tag = "Ok"
SameFields(p, q) == p.dll = q.dll /\ p.ell = q.ell /\ p.apl = q.apl
SameAs(other, extra) ==
    /\ other.tag = "Ok"
    /\ SameFields(other.packet[1], rdRes.packet[1])
    /\ other.packet[1].frame_len = <<Len(rdFrame) + extra>>

\* bytes the 3oo6 encoding of rdFrame is longer than rdFrame
EncodingGrowth == ((Len(rdFrame) * 2 * 6 + 7) \div 8) - Len(rdFrame)

\* C22 as stated: for every frame that Stack.read accepts as ModeCFFA, the
\* read of its zero-padded 3oo6 encoding as ModeTMTO succeeds with the same
\* DLL fields, ELL fields and APL.
C22_Original_ModeTAsFfa ==
    (rdMode = "ModeCFFA" /\ Accepted /\ rdModeT # NoRead)
        => SameAs(rdModeT, EncodingGrowth)

\* C22: for every frame that does not start with the syncword 54 CD and that
\* Stack.read accepts as ModeCFFA, the read of its 3oo6 encoding (padded with
\* zero bits to a whole number of bytes) as ModeTMTO succeeds with the same
\* DLL fields, ELL fields and APL: the padding is shorter than a symbol and
\* falls away when the symbols are counted.  A frame accepted behind 54 CD is
\* not accepted in Mode T, which strips no syncword.
C22_ModeTAsFfa ==
    (rdMode = "ModeCFFA" /\ Accepted /\ rdModeT # NoRead)
        => IF starts_with(rdFrame, <<84, 205>>)
           THEN rdModeT.tag # "Ok"
           ELSE SameAs(rdModeT, EncodingGrowth)

\* tests/stack.rs, can_read_modet: 91 bytes, encoded in 137 bytes with 4
\* bits of padding; KAM, 67042798, 69 bytes of APL
C22_Witness ==
    /\ rdFrame = RecordedFfaFrame
    /\ rdMode = "ModeCFFA"
    /\ rdModeT.tag = "Ok"
    /\ rdModeT.packet[1].frame_len = <<137>>
    /\ rdModeT.packet[1].dll[1].address = WMBusAddress(KAM, 67042798, 48, 4)
    /\ Len(rdModeT.packet[1].apl) = 69
    /\ rdModeT.packet[1].apl = rdRes.packet[1].apl

\* the same frame behind 54 CD is accepted as ModeCFFA, its encoding is not
C22_WitnessSyncword ==
    /\ rdFrame = <<84, 205>> \o RecordedFfaFrame
    /\ rdMode = "ModeCFFA"
    /\ Accepted
    /\ rdModeT # NoRead
    /\ rdModeT.tag # "Ok"

FfaBuffer == SliceFrom(rdFrame, IF starts_with(rdFrame, <<84, 205>>) THEN 2 ELSE 0)

\* the blocks FFA::read takes from b: 12 bytes, then up to 18 bytes each
FfaBlockCount(b) == 1 + ((Len(b) - 12) + 17) \div 18
FfaBlock(b, i) ==
    IF i = 0 THEN SubSeq(b, 1, 12)
    ELSE SubSeq(b, 12 + 18 * (i - 1) + 1, Min(Len(b), 12 + 18 * i))
BlockValid(block) ==
    /\ Len(block) >= 2
    /\ Crc16(SubSeq(block, 1, Len(block) - 2))
           = 256 * block[Len(block) - 1] + block[Len(block)]

RECURSIVE FfaDataUpTo(_, _)
FfaDataUpTo(b, k) ==
    IF k = 0 THEN <<>>
    ELSE FfaDataUpTo(b, k - 1)
         \o SubSeq(FfaBlock(b, k - 1), 1, Len(FfaBlock(b, k - 1)) - 2)

\* C24: FFA CRC stripping fails with Incomplete on a buffer shorter than the
\* frame length derived from L; otherwise it takes a first block of 12 and
\* blocks of up to 18 bytes, and returns the first failing block i as Crc(i)
\* with no data, or the concatenated data of all blocks.
C24_FfaCrcStripping ==
    (rdMode = "ModeCFFA" /\ WasRead /\ FfaBuffer # <<>> /\ FfaBuffer[1] >= 10) =>
        LET b == FfaBuffer
            failing == { i \in 0..(FfaBlockCount(b) - 1) : ~BlockValid(FfaBlock(b, i)) }
        IN  IF Len(b) < FfaRule(1 + b[1]).frame_length
            THEN rdTrim = TrimErr("Incomplete", 0)
            ELSE IF failing # {}
            THEN rdTrim = TrimErr("Crc", CHOOSE i \in failing : \A j \in failing : i <= j)
            ELSE rdTrim = TrimOk(FfaDataUpTo(b, FfaBlockCount(b)))

\* C24 holds on the buffers all of whose blocks have two bytes or more
C24_OnWholeBlocks ==
    (Len(FfaBuffer) >= 12 =>
        \A i \in 0..(FfaBlockCount(FfaBuffer) - 1) : Len(FfaBlock(FfaBuffer, i)) >= 2)
        => C24_FfaCrcStripping

\* C25 as stated: for every frame Stack.read accepts in a Mode C format, the
\* read of the frame behind that format's syncword returns the same DLL
\* fields, ELL fields and APL, and a frame_len larger by 2.
C25_Original_SyncwordOptional ==
    (rdMode # "ModeTMTO" /\ Accepted /\ rdSync # NoRead) => SameAs(rdSync, 2)

\* C25: for every frame that does not itself start with the syncword of its
\* mode (54 3D for ModeCFFB, 54 CD for ModeCFFA), Stack.read of the frame and
\* of the syncword followed by the frame end alike: on success with the same
\* DLL fields, ELL fields and APL and a frame_len larger by 2, on failure
\* with the same error.
C25_SyncwordOptional ==
    (rdMode # "ModeTMTO" /\ rdSync # NoRead
        /\ ~starts_with(rdFrame, Syncword(rdMode))) =>
        /\ Accepted => SameAs(rdSync, 2)
        /\ ~Accepted => rdSync = rdRes

\* tests/stack.rs, can_read_modec_ffb and can_read_modec_ffb_presync
C25_Witness ==
    /\ rdFrame = SealedFfb(FrameData(19, 122, 8))
    /\ rdMode = "ModeCFFB"
    /\ Accepted
    /\ rdRes.packet[1].frame_len = <<20>>
    /\ rdSync.tag = "Ok"
    /\ rdSync.packet[1].frame_len = <<22>>
    /\ rdSync.packet[1].apl = AplOf(122, 8)

\* C27: Stack.read returns Ok or Err for every buffer and every mode, and
\* never aborts.
C27_StackReadTotal ==
    /\ rdRes.tag # "Panic"
    /\ rdSync.tag # "Panic"
    /\ rdModeT.tag # "Panic"

\* apart from the aborts, every read ends in Ok or in a ReadError
C27_ReadResults ==
    WasRead =>
        rdRes.tag \in {"Ok", "Panic", "Incomplete", "Capacity", "Phl.InvalidLength",
                       "Phl.Crc", "Phl.ThreeOutOfSix.Symbol",
                       "Phl.ThreeOutOfSix.InputLength", "Dll.BcdConversion",
                       "Ell.BcdConversion"}

(***************************************************************************)
(* Further properties of FrameMetadata::read.                              *)
(***************************************************************************)
Popcount(x) == Cardinality({ i \in 0..7 : (x \div Pow2(i)) % 2 = 1 })

\* C23: with b[0] # 0x54 and b[1] = 0x44 (3 bytes or more): unless the top 6
\* bits of b[0] and the symbol straddling b[0]/b[1] both have popcount 3, the
\* result is ModeCFFB, frame_offset 0, frame length 1 + b[0], or InvalidLength
\* if that is below 13; if both have popcount 3 and fewer than 18 bytes are
\* there, the result is Incomplete.
C23_AmbiguousControlByte ==
    (Applied /\ Len(phlBuf) >= 3 /\ phlBuf[1] # 84 /\ phlBuf[2] = 68) =>
        IF Popcount(FirstSymbol(phlBuf)) = 3 /\ Popcount(SecondSymbol(phlBuf)) = 3
        THEN Len(phlBuf) < 18 => phlRes = MetaErr("Incomplete")
        ELSE phlRes = IF 1 + phlBuf[1] < 13 THEN MetaErr("InvalidLength")
                      ELSE MetaOk("ModeCFFB", 0, 1 + phlBuf[1])

\* 0C 44 ..: symbols 000011 000100, a frame of 13 bytes, decided on 3 bytes
C23_Witness ==
    /\ Len(phlBuf) = 3
    /\ SubSeq(phlBuf, 1, 2) = <<12, 68>>
    /\ phlRes = MetaOk("ModeCFFB", 0, 13)

\* 37 44 ..: symbols 001101 110100, 17 bytes
C23_WitnessIncomplete ==
    /\ Len(phlBuf) = 17
    /\ SubSeq(phlBuf, 1, 2) = <<55, 68>>
    /\ phlRes = MetaErr("Incomplete")

\* 09 44 ..: a frame of 10 bytes
C23_WitnessInvalid ==
    /\ Len(phlBuf) = 3
    /\ SubSeq(phlBuf, 1, 2) = <<9, 68>>
    /\ phlRes = MetaErr("InvalidLength")

\* C26: FrameMetadata::read returns Ok or Err on every buffer; none of its
\* assertions and index operations fails.
C26_FrameMetadataTotal == phlRes.tag # "Panic"

\* C28: once FrameMetadata::read has returned Ok(m) or an error other than
\* Incomplete on a buffer, it returns the same on every extension of that
\* buffer; and it does not return Incomplete on 18 bytes or more.
C28_DecisionStable ==
    Applied =>
        /\ phlPrev # NoResult => phlRes = phlPrev
        /\ Len(phlBuf) >= 18 => phlRes.tag # "Incomplete"

\* 0C 44 ..: ModeCFFB with 13 bytes, decided on 3 bytes and again on 19
C28_Witness ==
    /\ Len(phlBuf) = 19
    /\ SubSeq(phlBuf, 1, 2) = <<12, 68>>
    /\ phlPrev = MetaOk("ModeCFFB", 0, 13)
    /\ phlRes = phlPrev

\* 4F 44 ..: both symbols have popcount 3: Incomplete up to 17 bytes,
\* ModeCFFB with 80 bytes on 18 bytes and again on 19
C28_WitnessLate ==
    /\ Len(phlBuf) = 19
    /\ SubSeq(phlBuf, 1, 2) = <<79, 68>>
    /\ phlPrev = MetaOk("ModeCFFB", 0, 80)
    /\ phlRes = phlPrev

(***************************************************************************)
(* The staging buffer of the receive stream (controller.rs:17-42, 105-114).*)
(***************************************************************************)
\* the capacity of Frame::buffer
Capacity == FRAME_MAX

\* Frame::bytes(): &buffer[0..length] lies within the buffer
BytesInBounds(f) == f.length # None /\ f.length[1] <= Capacity

\* C29: with reads that return no more than the slice they were given, the
\* received count stays within 0..capacity of the staging buffer, every read
\* is given buffer[received..] and stores behind the bytes already there, and
\* a yielded frame has length <= received <= capacity, so that bytes()
\* (buffer[0..length]) is within bounds.
C29_BufferBounds ==
    /\ [](/\ frame.received \in 0..Capacity
          /\ Len(frame.buffer) = frame.received
          /\ item # None =>
                /\ BytesInBounds(item[1])
                /\ item[1].length[1] <= item[1].received
                /\ item[1].received <= Capacity)
    /\ [][ op' = "StreamRead" =>
              /\ calls'[1].op = "read"
              /\ calls'[1].arg = frame.received
              /\ frame'.received \in frame.received..Capacity
              /\ SubSeq(frame'.buffer, 1, frame.received) = frame.buffer ]_vars

\* the longest frame, yielded from a full staging buffer
C29_Witness ==
    /\ item # None
    /\ item[1].length = Some(Capacity)
    /\ item[1].received = Capacity
    /\ calls[1].op = "read" /\ calls[1].arg < Capacity

(***************************************************************************)
(* Termination of the inner loop of receive_stream (controller.rs:92-149). *)
(***************************************************************************)
FrameIds == 1..MaxFrames

\* the stream is in the inner loop on frame k
Reading(k) == pc \in PassPoints /\ token.id = k

\* frame k was yielded, or abandoned with the stream back at receive()
FrameFinished(k) ==
    /\ k <= Len(status)
    /\ status[k] \in {"yielded", "derive_error", "read_error"}

\* the caller dropped the stream while it was reading frame k
FrameDropped(k) == k <= Len(status) /\ status[k] = "dropped"

\* an unwrap() of a failed transceiver call ended the stream
TransceiverFailed ==
    /\ pc = "panicked"
    /\ \E i \in 1..Len(calls) : ~calls[i].ok

\* the stream ended in a panic with every transceiver call successful
FrameAborted(k) ==
    /\ k <= Len(status) /\ status[k] = "panicked"
    /\ ~TransceiverFailed

\* C30: every detected frame is eventually finished: after receive() has
\* reported frame k, and unless the stream is dropped or a transceiver call
\* other than read fails, the controller eventually yields the frame or
\* abandons it and is back at transceiver.receive.
C30_EveryFrameFinished ==
    \A k \in FrameIds :
        Reading(k) ~> (FrameFinished(k) \/ FrameDropped(k) \/ TransceiverFailed)

\* the inner loop itself ends: the stream does not stay at the read of one
\* frame forever, and while it is there the read slice is not empty and an
\* unknown length is decided before DERIVE_DECIDED bytes
DERIVE_DECIDED == (12 * 6) \div 4

C30_NoEndlessRead ==
    /\ [](pc = "read" =>
            /\ frame.received < Capacity
            /\ frame.length = None => frame.received < DERIVE_DECIDED
            /\ frame.length # None => frame.received < frame.length[1])
    /\ \A k \in FrameIds : Reading(k) ~> ~Reading(k)

\* the stream ended on a frame whose reads and other calls all succeeded
C30_Aborted == \E k \in FrameIds : FrameAborted(k)

====
